---- MODULE Spec2Model ----
(***************************************************************************)
(* Sora: reset-time calculator (landing page App and dailies page          *)
(* DailiesApp) and the dailies timer / notification scheduler.             *)
(*                                                                         *)
(* Instants are milliseconds.  An instant of the model is the real epoch   *)
(* instant minus a fixed multiple of 24h, so that the values stay small;   *)
(* the calculators only use the instant modulo 24h and differences.        *)
(* A server's offset (hours, possibly fractional) is held in minutes:      *)
(* offset = offsetMin / 60, so offset * 60 * 60 * 1000 = offsetMin * 60000. *)
(* A dailyReset string is the sequence of its characters.                  *)
(***************************************************************************)
EXTENDS Integers, Sequences, FiniteSets, TLC

MsPerMinute == 60 * 1000
MsPerHour == 60 * 60 * 1000
MsPerDay == 24 * 60 * 60 * 1000

(***************************************************************************)
(* JavaScript numbers that may be NaN.                                     *)
(***************************************************************************)
Num(x) == [nan |-> FALSE, v |-> x]
NaN == [nan |-> TRUE, v |-> 0]

Digits == {"0", "1", "2", "3", "4", "5", "6", "7", "8", "9"}

DigitValue(c) ==
    CASE c = "0" -> 0 [] c = "1" -> 1 [] c = "2" -> 2 [] c = "3" -> 3
      [] c = "4" -> 4 [] c = "5" -> 5 [] c = "6" -> 6 [] c = "7" -> 7
      [] c = "8" -> 8 [] c = "9" -> 9

RECURSIVE Decimal(_)
Decimal(s) ==
    IF s = <<>> THEN 0
    ELSE 10 * Decimal(SubSeq(s, 1, Len(s) - 1)) + DigitValue(s[Len(s)])

\* String.prototype.split(sep) for a one-character separator.
RECURSIVE Split(_, _)
Split(s, sep) ==
    IF \A i \in 1..Len(s) : s[i] # sep THEN <<s>>
    ELSE LET i == CHOOSE k \in 1..Len(s) :
                      s[k] = sep /\ \A j \in 1..(k - 1) : s[j] # sep
         IN  <<SubSeq(s, 1, i - 1)>> \o Split(SubSeq(s, i + 1, Len(s)), sep)

\* Number(str) on strings over digits and other characters: the empty string
\* is 0, a string of digits is its decimal value, anything else is NaN.
ToNumber(s) ==
    IF \A i \in 1..Len(s) : s[i] \in Digits THEN Num(Decimal(s)) ELSE NaN

\* parseInt(str, 10): the longest prefix of digits, NaN when it is empty.
ParseInt(s) ==
    LET n == IF \A i \in 1..Len(s) : s[i] \in Digits THEN Len(s)
             ELSE (CHOOSE k \in 1..Len(s) :
                       s[k] \notin Digits /\ \A j \in 1..(k - 1) : s[j] \in Digits) - 1
    IN  IF n = 0 THEN NaN ELSE Num(Decimal(SubSeq(s, 1, n)))

\* Date.UTC(y, m, d, hours, minutes, 0, 0) with y/m/d the UTC calendar date of
\* the instant t: midnight of t's day plus the given hours and minutes
\* (hours and minutes outside 0..23 / 0..59 carry over, as Date.UTC does).
DateUTCOnDayOf(t, hours, minutes) ==
    (t \div MsPerDay) * MsPerDay + hours * MsPerHour + minutes * MsPerMinute

\* The offset with its fractional hours cut off.
OffsetMsWholeHours(server) == (server.offsetMin \div 60) * MsPerHour

\* const offsetMs = server.offset * 60 * 60 * 1000.  An entry whose offset is
\* no number (offsetIsNumber = FALSE) has no offset at all or a text that is
\* no number: the product is NaN, tested where OffsetMs is used.
OffsetMs(server) == server.offsetMin * MsPerMinute

(***************************************************************************)
(* DailiesApp reset calculators (no validation of the server entry).       *)
(***************************************************************************)
\* const [resetHours, resetMinutes] = server.dailyReset.split(':').map(Number)
DailiesResetParts(server) ==
    LET parts == Split(server.dailyReset, ":")
    IN  [hours |-> ToNumber(parts[1]),
         minutes |-> IF Len(parts) >= 2 THEN ToNumber(parts[2]) ELSE NaN]

\* getLastResetUtc with <= in place of < at the exact reset instant.
getLastResetUtcOff(server, now) ==
    LET offsetMs == OffsetMs(server)
        nowServer == now + offsetMs
        p == DailiesResetParts(server)
    IN  IF ~server.offsetIsNumber \/ p.hours.nan \/ p.minutes.nan THEN NaN
        ELSE LET todayResetServer == DateUTCOnDayOf(nowServer, p.hours.v, p.minutes.v)
                 lastResetServer == IF nowServer <= todayResetServer
                                    THEN todayResetServer - MsPerDay
                                    ELSE todayResetServer
             IN  Num(lastResetServer - offsetMs)

getLastResetUtc(server, now) ==
    LET offsetMs == OffsetMs(server)
        nowServer == now + offsetMs
        p == DailiesResetParts(server)
    IN  IF ~server.offsetIsNumber \/ p.hours.nan \/ p.minutes.nan THEN NaN
        ELSE LET todayResetServer == DateUTCOnDayOf(nowServer, p.hours.v, p.minutes.v)
                 lastResetServer == IF nowServer < todayResetServer
                                    THEN todayResetServer - MsPerDay
                                    ELSE todayResetServer
             IN  Num(lastResetServer - offsetMs)

\* getNextResetUtc with > in place of >= at the exact reset instant.
getNextResetUtcOff(server, now) ==
    LET offsetMs == OffsetMs(server)
        nowServer == now + offsetMs
        p == DailiesResetParts(server)
    IN  IF ~server.offsetIsNumber \/ p.hours.nan \/ p.minutes.nan THEN NaN
        ELSE LET todayResetServer == DateUTCOnDayOf(nowServer, p.hours.v, p.minutes.v)
                 nextResetServer == IF nowServer > todayResetServer
                                    THEN todayResetServer + MsPerDay
                                    ELSE todayResetServer
             IN  Num(nextResetServer - offsetMs)

getNextResetUtc(server, now) ==
    LET offsetMs == OffsetMs(server)
        nowServer == now + offsetMs
        p == DailiesResetParts(server)
    IN  IF ~server.offsetIsNumber \/ p.hours.nan \/ p.minutes.nan THEN NaN
        ELSE LET todayResetServer == DateUTCOnDayOf(nowServer, p.hours.v, p.minutes.v)
                 nextResetServer == IF nowServer >= todayResetServer
                                    THEN todayResetServer + MsPerDay
                                    ELSE todayResetServer
             IN  Num(nextResetServer - offsetMs)

(***************************************************************************)
(* App.getNextResetUtcForServer (landing page): validates, then the same    *)
(* arithmetic; every rejected entry yields now + 24h.                      *)
(***************************************************************************)
getNextResetUtcForServer(server, now) ==
    LET fallback == now + MsPerDay
        resetParts == Split(server.dailyReset, ":")
    IN  IF ~server.resetIsString \/ ~server.offsetIsNumber THEN fallback
        ELSE IF Len(resetParts) # 2 THEN fallback
        ELSE LET resetHours == ParseInt(resetParts[1])
                 resetMinutes == ParseInt(resetParts[2])
             IN  IF resetHours.nan \/ resetMinutes.nan THEN fallback
                 ELSE IF resetHours.v < 0 \/ resetHours.v > 23
                         \/ resetMinutes.v < 0 \/ resetMinutes.v > 59 THEN fallback
                 ELSE LET offsetMs == OffsetMs(server)
                          nowServer == now + offsetMs
                          todayResetServer ==
                              DateUTCOnDayOf(nowServer, resetHours.v, resetMinutes.v)
                          nextResetServer ==
                              IF nowServer >= todayResetServer
                              THEN todayResetServer + MsPerDay
                              ELSE todayResetServer
                      IN  nextResetServer - offsetMs

(***************************************************************************)
(* The game catalog served by GET /api/games.                              *)
(***************************************************************************)
\* "HH:MM" for hours h and minutes m, as the catalog writes it.
DigitChar(d) ==
    CASE d = 0 -> "0" [] d = 1 -> "1" [] d = 2 -> "2" [] d = 3 -> "3"
      [] d = 4 -> "4" [] d = 5 -> "5" [] d = 6 -> "6" [] d = 7 -> "7"
      [] d = 8 -> "8" [] d = 9 -> "9"

TimeString(h, m) ==
    <<DigitChar(h \div 10), DigitChar(h % 10), ":",
      DigitChar(m \div 10), DigitChar(m % 10)>>

Server(name, offsetMin, dailyReset) ==
    [name |-> name, offsetMin |-> offsetMin, offsetIsNumber |-> TRUE,
     dailyReset |-> dailyReset, resetIsString |-> TRUE]

Catalog ==
    << [id |-> "test-game-1", name |-> "Test Game Alpha",
        servers |-> << Server("Asia", 9 * 60, TimeString(5, 0)) >>] >>

(***************************************************************************)
(* State.                                                                  *)
(***************************************************************************)
VARIABLES
    now,                    \* Date.now()
    phase,                  \* "loading": init() awaits loadGames; "running"
    games,                  \* DailiesApp.games
    activeTimers,           \* DailiesApp.activeTimers
    notifications,          \* DailiesApp.notifications
    notificationPermission, \* DailiesApp.notificationPermission
    storage,                \* localStorage: sora_dailies_timers, _notifications
    pending,                \* the page's pending setTimeout callbacks of timers
    nextHandle,             \* the last timeout id the page handed out
    nextId,                 \* number of ids generateId has produced
    sessions,               \* number of page loads so far
    sent,                   \* per timer id: calls of sendNotification for it
    shown,                  \* per timer id: Notification objects created for it
    cancelled,              \* timer ids removeTimer was called for by the user
    lastOp,                 \* the handler that ran last, and its input's class
    calcServer, calcReset, calcNow, \* a calculator call: the server, its reset
    calcOut                         \* time as numbers, the instant; the results

VARIABLES
    checklists,             \* DailiesApp.checklists, in Object.keys order
    storedChecklists,       \* localStorage: sora_dailies_checklists
    rendered,               \* keys of the checklist cards in the document
    itemIds,                \* number of ids generateId has produced for items
    listOp,                 \* the checklist handler that ran last, and how
    request, response,      \* an HTTP request to the server and its answer
    store,                  \* localStorage, one entry per key the page reads
    mem,                    \* the page's partitions as loadFromStorage left them
    file,                   \* the server's games.yaml: readable, mtime, content
    gamesCache,             \* gamesLoader.ts: gamesCache
    lastModifiedTime,       \* gamesLoader.ts: lastModifiedTime
    loaderOut               \* the loader call that ran last, and what it did

listVars == <<checklists, storedChecklists, rendered, itemIds, listOp>>
ioVars == <<request, response>>
storeVars == <<store, mem>>
loaderVars == <<file, gamesCache, lastModifiedTime, loaderOut>>
restVars == <<listVars, ioVars, storeVars, loaderVars>>

timerVars == <<now, phase, games, activeTimers, notifications,
               notificationPermission, storage, pending, nextHandle,
               nextId, sessions, sent, shown, cancelled, lastOp>>
calcVars == <<calcServer, calcReset, calcNow, calcOut>>
vars == <<timerVars, calcVars, restVars>>

(***************************************************************************)
(* Bounds of the model.                                                    *)
(***************************************************************************)
MaxIds == 2         \* timers created in one behaviour
MaxSessions == 3    \* page loads in one behaviour
MaxForeign == 1     \* timeout ids other scripts took before init() runs
MaxHandle == 4      \* largest timeout id handed out in one page load
MaxTicks == 3       \* clock steps of TickMs

TickMs == 30 * MsPerMinute
StartNow == MsPerDay + 18 * MsPerHour
MaxNow == StartNow + MaxTicks * TickMs

Ids == 1..MaxIds
NoKey == <<"", "">>

ActiveIds == {activeTimers[i].id : i \in DOMAIN activeTimers}
StoredTimers == IF storage.timers.present THEN storage.timers.value ELSE <<>>
StoredIds == {StoredTimers[i].id : i \in DOMAIN StoredTimers}
PendingIn(pend, id) == {p \in pend : p.id = id}
PendingFor(id) == PendingIn(pending, id)

Op(op, id, flag) == [op |-> op, id |-> id, flag |-> flag]

(***************************************************************************)
(* Helpers of the scheduler.                                               *)
(***************************************************************************)
\* String.prototype.trim() on strings over " " and letters.
RECURSIVE Trim(_)
Trim(s) ==
    IF s = <<>> THEN s
    ELSE IF Head(s) = " " THEN Trim(Tail(s))
    ELSE IF s[Len(s)] = " " THEN Trim(SubSeq(s, 1, Len(s) - 1))
    ELSE s

getGameById(gameId) ==
    LET found == SelectSeq(games, LAMBDA g : g.id = gameId)
    IN  IF found = <<>> THEN <<>> ELSE <<found[1]>>

findServer(game, serverName) ==
    LET found == SelectSeq(game.servers, LAMBDA s : s.name = serverName)
    IN  IF found = <<>> THEN <<>> ELSE <<found[1]>>

\* clearTimeout(handle): the pending callback with that id, if any, is dropped.
clearTimeout(pend, handle) == {p \in pend : p.handle # handle}

\* A save that writes nothing.
KeepStoredTimers(timers) == storage.timers

\* JSON.stringify / localStorage.setItem of the timer list: every own property
\* of a timer object is written, timeoutHandle included once it is set.
saveTimers(timers) == [present |-> TRUE, value |-> timers]
saveNotifications(prefs) == [present |-> TRUE, value |-> prefs]

\* The scheduler state a handler works on.
St == [timers |-> activeTimers, pending |-> pending, handle |-> nextHandle,
       stored |-> storage.timers]

scheduleTimerNotification(st, i, delay) ==
    LET timer == st.timers[i]
        cleared == IF timer.timeoutHandle # 0
                   THEN clearTimeout(st.pending, timer.timeoutHandle)
                   ELSE st.pending
        handle == st.handle + 1
    IN  [st EXCEPT !.timers[i].timeoutHandle = handle,
                   !.pending = cleared \cup
                       {[handle |-> handle, id |-> timer.id, due |-> now + delay]},
                   !.handle = handle]

\* removeTimer without its clearTimeout.
removeTimerKeepCallback(st, timerId) ==
    [st EXCEPT !.timers = SelectSeq(st.timers, LAMBDA t : t.id # timerId),
               !.stored = saveTimers(SelectSeq(st.timers, LAMBDA t : t.id # timerId))]

\* removeTimer without its filter of the active list.
removeTimerKeepTimer(st, timerId) ==
    LET found == SelectSeq(st.timers, LAMBDA t : t.id = timerId)
    IN  [st EXCEPT !.pending = IF found # <<>> /\ found[1].timeoutHandle # 0
                               THEN clearTimeout(st.pending, found[1].timeoutHandle)
                               ELSE st.pending,
                   !.stored = saveTimers(st.timers)]

\* removeTimer(timerId) on the scheduler state.
removeTimerOf(st, timerId) ==
    LET found == SelectSeq(st.timers, LAMBDA t : t.id = timerId)
        cleared == IF found # <<>> /\ found[1].timeoutHandle # 0
                   THEN clearTimeout(st.pending, found[1].timeoutHandle)
                   ELSE st.pending
        kept == SelectSeq(st.timers, LAMBDA t : t.id # timerId)
    IN  [st EXCEPT !.timers = kept, !.pending = cleared,
                   !.stored = saveTimers(kept)]

\* sendNotification(title, body) for timer id: counts the call, and the
\* Notification it constructs when permission is granted.
SentAfter(s, id) == [s EXCEPT ![id] = @ + 1]
ShownAfter(s, id) ==
    IF notificationPermission = "granted" THEN [s EXCEPT ![id] = @ + 1] ELSE s


(***************************************************************************)
(* User input.                                                             *)
(***************************************************************************)
LabelChoices == {<<>>, <<" ", " ">>, <<" ", "a", " ">>}
HoursChoices == {0, 1}
MinutesChoices == {-60, 30}
GameIdChoices == {"test-game-1", "gone"}
ServerNameChoices == {"Asia"}
MinutesBeforeChoices == {60, 240}

\* The class of a setCustomTimer input, read off the input alone.
CustomInputClass(label, hours, minutes) ==
    IF \A i \in DOMAIN label : label[i] = " " THEN "blankLabel"
    ELSE IF hours * 60 + minutes <= 0 THEN "noDuration"
    ELSE "valid"

(***************************************************************************)
(* Handlers.                                                               *)
(***************************************************************************)
NewTimer(id, label, endsAt, gameId, serverName, kind) ==
    [id |-> id, label |-> label, endsAt |-> endsAt, gameId |-> gameId,
     serverName |-> serverName, kind |-> kind, timeoutHandle |-> 0]

\* push, saveTimers, renderActiveTimers, scheduleTimerNotification(timer, delay)
AddTimer(timer, delay) ==
    LET pushed == Append(activeTimers, timer)
        saved == [St EXCEPT !.timers = pushed, !.stored = saveTimers(pushed)]
    IN  scheduleTimerNotification(saved, Len(pushed), delay)

\* The label check alone.
InvalidCustomTimerLabelOnly(label, totalMs) == Trim(label) = <<>>

\* The two validation checks of setCustomTimer.
InvalidCustomTimer(label, totalMs) == Trim(label) = <<>> \/ totalMs <= 0

setCustomTimer(label, hours, minutes) ==
    LET totalMs == hours * MsPerHour + minutes * MsPerMinute
        endsAt == now + totalMs
        st == AddTimer(NewTimer(nextId + 1, Trim(label), endsAt, "", "", "custom"),
                       totalMs)
    IN  /\ phase = "running"
        /\ IF InvalidCustomTimer(label, totalMs)
           THEN /\ nextHandle' = nextHandle
                /\ lastOp' = Op("setCustomTimer", 0,
                                CustomInputClass(label, hours, minutes))
                /\ UNCHANGED <<now, phase, games, activeTimers, notifications,
                               notificationPermission, storage, pending, nextId,
                               sessions, sent, shown, cancelled, calcVars, restVars>>
           ELSE /\ nextId < MaxIds /\ endsAt <= MaxNow
                /\ activeTimers' = st.timers
                /\ pending' = st.pending
                /\ storage' = [storage EXCEPT !.timers = st.stored]
                /\ nextId' = nextId + 1
                /\ st.handle <= MaxHandle /\ nextHandle' = st.handle
                /\ lastOp' = Op("setCustomTimer", nextId + 1,
                                CustomInputClass(label, hours, minutes))
                /\ UNCHANGED <<now, phase, games, notifications,
                               notificationPermission, sessions, sent, shown,
                               cancelled, calcVars, restVars>>

\* The class of a scheduleResetNotification input: "unknown" game or server,
\* "tooSoon" when nextResetUtc - minutesBefore * 60000 <= now, else "ok".
ResetInputClass(gameId, serverName, minutesBefore) ==
    LET game == getGameById(gameId)
        server == IF game = <<>> THEN <<>> ELSE findServer(game[1], serverName)
    IN  IF server = <<>> THEN "unknown"
        ELSE IF getNextResetUtc(server[1], now).v - minutesBefore * MsPerMinute <= now
             THEN "tooSoon" ELSE "ok"

\* A handler that leaves the preferences as they are.
KeepPreferences(prefs, key, minutesBefore) == prefs

PutPreference(prefs, key, minutesBefore) ==
    [k \in DOMAIN prefs \cup {key} |->
        IF k = key THEN [beforeReset |-> minutesBefore] ELSE prefs[k]]

\* A guard that lets notifyAt = now through.
TooSoonStrict(notifyAt) == notifyAt < now

\* if (notifyAt <= now): the reset is too soon for this lead time.
TooSoon(notifyAt) == notifyAt <= now

scheduleResetNotification(gameId, serverName, minutesBefore) ==
    LET game == getGameById(gameId)
        server == IF game = <<>> THEN <<>> ELSE findServer(game[1], serverName)
        nextResetUtc == getNextResetUtc(server[1], now).v
        notifyAt == nextResetUtc - minutesBefore * MsPerMinute
        key == <<gameId, serverName>>
        prefs == PutPreference(notifications, key, minutesBefore)
        st == AddTimer(NewTimer(nextId + 1, <<game[1].name, serverName, "Reset">>,
                                notifyAt, gameId, serverName, "reset"),
                       notifyAt - now)
    IN  /\ phase = "running"
        /\ IF game = <<>> \/ server = <<>>
           THEN /\ lastOp' = Op("scheduleResetNotification", 0,
                                ResetInputClass(gameId, serverName, minutesBefore))
                /\ UNCHANGED <<now, phase, games, activeTimers, notifications,
                               notificationPermission, storage, pending,
                               nextHandle, nextId, sessions, sent, shown,
                               cancelled, calcVars, restVars>>
           ELSE IF TooSoon(notifyAt)
           THEN /\ nextHandle' = nextHandle
                /\ lastOp' = Op("scheduleResetNotification", 0,
                                ResetInputClass(gameId, serverName, minutesBefore))
                /\ UNCHANGED <<now, phase, games, activeTimers, notifications,
                               notificationPermission, storage, pending, nextId,
                               sessions, sent, shown, cancelled, calcVars, restVars>>
           ELSE /\ nextId < MaxIds /\ notifyAt <= MaxNow
                /\ notifications' = prefs
                /\ activeTimers' = st.timers
                /\ pending' = st.pending
                /\ storage' = [storage EXCEPT
                                  !.notifications = saveNotifications(prefs),
                                  !.timers = st.stored]
                /\ nextId' = nextId + 1
                /\ st.handle <= MaxHandle /\ nextHandle' = st.handle
                /\ lastOp' = Op("scheduleResetNotification", nextId + 1,
                                ResetInputClass(gameId, serverName, minutesBefore))
                /\ UNCHANGED <<now, phase, games, notificationPermission,
                               sessions, sent, shown, cancelled, calcVars, restVars>>

\* The cancel button of a rendered timer: removeTimer(id).
CancelTimer(timerId) ==
    LET st == removeTimerOf(St, timerId)
    IN  /\ phase = "running"
        /\ activeTimers' = st.timers
        /\ pending' = st.pending
        /\ storage' = [storage EXCEPT !.timers = st.stored]
        /\ cancelled' = cancelled \cup {timerId}
        /\ nextHandle' = nextHandle
        /\ lastOp' = Op("removeTimer", timerId,
                        IF timerId \in ActiveIds THEN "scheduled" ELSE "absent")
        /\ UNCHANGED <<now, phase, games, notifications, notificationPermission,
                       nextId, sessions, sent, shown, calcVars, restVars>>

\* The one-shot callback armed by scheduleTimerNotification runs (not before
\* its delay has passed): sendNotification, then removeTimer(timer.id).
TimerCallback(p) ==
    LET st == removeTimerOf([St EXCEPT !.pending = pending \ {p}], p.id)
    IN  /\ p \in pending
        /\ now >= p.due
        /\ sent' = SentAfter(sent, p.id)
        /\ shown' = ShownAfter(shown, p.id)
        /\ activeTimers' = st.timers
        /\ pending' = st.pending
        /\ storage' = [storage EXCEPT !.timers = st.stored]
        /\ lastOp' = Op("timerCallback", p.id,
                        IF notificationPermission = "granted"
                        THEN "granted" ELSE "notGranted")
        /\ UNCHANGED <<now, phase, games, notifications, notificationPermission,
                       nextHandle, nextId, sessions, cancelled,
                       calcVars, restVars>>

\* checkExpiredTimers: expired timers without a timeoutHandle are notified and
\* removed, one after the other.
RECURSIVE RemoveAll(_, _)
RemoveAll(st, timers) ==
    IF timers = <<>> THEN st
    ELSE RemoveAll(removeTimerOf(st, Head(timers).id), Tail(timers))

expiredWithoutTimeout(timers) ==
    SelectSeq(timers, LAMBDA t : t.endsAt <= now /\ t.timeoutHandle = 0)

\* The 1 Hz interval of startUpdateInterval (its timer part).
UpdateInterval ==
    LET expired == expiredWithoutTimeout(activeTimers)
        ids == {expired[i].id : i \in DOMAIN expired}
        st == RemoveAll(St, expired)
    IN  /\ phase = "running"
        /\ sent' = [id \in Ids |-> IF id \in ids THEN sent[id] + 1 ELSE sent[id]]
        /\ shown' = [id \in Ids |->
                        IF id \in ids /\ notificationPermission = "granted"
                        THEN shown[id] + 1 ELSE shown[id]]
        /\ activeTimers' = st.timers
        /\ pending' = st.pending
        /\ storage' = [storage EXCEPT !.timers = st.stored]
        /\ lastOp' = Op("updateInterval", 0, IF ids = {} THEN "" ELSE "fired")
        /\ UNCHANGED <<now, phase, games, notifications, notificationPermission,
                       nextHandle, nextId, sessions, cancelled,
                       calcVars, restVars>>

\* loadFromStorage's filter over the parsed timers, in list order: an expired
\* timer is dropped, any other one is re-armed with scheduleTimerNotification.
\* st.timers holds the timers kept so far.
RECURSIVE RearmAll(_, _)
RearmAll(st, rest) ==
    IF rest = <<>> THEN st
    ELSE LET timer == Head(rest)
             remaining == timer.endsAt - now
         IN  IF remaining <= 0 THEN RearmAll(st, Tail(rest))
             ELSE LET with == [st EXCEPT !.timers = Append(st.timers, timer)]
                  IN  RearmAll(scheduleTimerNotification(with, Len(with.timers),
                                                         remaining),
                               Tail(rest))

\* The page is loaded again (or first loaded): every callback of the previous
\* page is gone, timeout ids start over after the ids that other scripts of the
\* page took (base), init() runs loadFromStorage and checkNotificationPermission
\* and then awaits loadGames.
LoadPage(base) ==
    LET parsed == StoredTimers
        st == RearmAll([timers |-> <<>>, pending |-> {}, handle |-> base,
                        stored |-> storage.timers], parsed)
    IN  /\ sessions < MaxSessions
        /\ st.handle <= MaxHandle
        /\ sessions' = sessions + 1
        /\ phase' = "loading"
        /\ games' = <<>>
        /\ notifications' = IF storage.notifications.present
                            THEN storage.notifications.value ELSE <<>>
        /\ activeTimers' = st.timers
        /\ pending' = st.pending
        /\ nextHandle' = st.handle
        /\ storage' = IF storage.timers.present
                      THEN [storage EXCEPT !.timers = saveTimers(st.timers)]
                      ELSE storage
        /\ lastOp' = Op("loadFromStorage", 0, "")
        /\ UNCHANGED <<now, notificationPermission, nextId, sent, shown,
                       cancelled, calcVars, restVars>>

\* What GET /api/games answers.
CatalogChoices == {Catalog}

\* loadGames resolves and init() goes on: listeners, render,
\* startUpdateInterval.
InitDone(loaded) ==
    /\ phase = "loading"
    /\ games' = loaded
    /\ phase' = "running"
    /\ nextHandle' = nextHandle
    /\ lastOp' = Op("other", 0, "")
    /\ UNCHANGED <<now, activeTimers, notifications, notificationPermission,
                   storage, pending, nextId, sessions, sent, shown,
                   cancelled, calcVars, restVars>>

\* The user answers the permission prompt, or dismisses it.
requestNotificationPermission(permission) ==
    /\ phase = "running"
    /\ notificationPermission' = permission
    /\ nextHandle' = nextHandle
    /\ lastOp' = Op("other", 0, "")
    /\ UNCHANGED <<now, phase, games, activeTimers, notifications, storage,
                   pending, nextId, sessions, sent, shown, cancelled,
                   calcVars, restVars>>

\* Time passes.
Tick ==
    /\ now < MaxNow
    /\ now' = now + TickMs
    /\ lastOp' = Op("other", 0, "")
    /\ UNCHANGED <<phase, games, activeTimers, notifications,
                   notificationPermission, storage, pending, nextHandle,
                   nextId, sessions, sent, shown, cancelled, calcVars, restVars>>

(***************************************************************************)
(* The scheduler: first page load on an empty localStorage.                *)
(***************************************************************************)
\* The checklist tracker, the HTTP server and the storage loader at rest.
NoLists ==
    /\ checklists = <<>>
    /\ storedChecklists = [present |-> FALSE, value |-> <<>>]
    /\ rendered = {}
    /\ itemIds = 0
    /\ listOp = [op |-> "none"]

NoIo ==
    /\ request = [route |-> "none"]
    /\ response = [status |-> 0]

NoStore ==
    /\ store = <<>>
    /\ mem = <<>>

NoLoader ==
    /\ file = [readable |-> FALSE]
    /\ gamesCache = [isNull |-> TRUE]
    /\ lastModifiedTime = [isNull |-> TRUE]
    /\ loaderOut = [op |-> "none"]

NoCalc ==
    /\ calcServer = Server("", 0, <<>>)
    /\ calcReset = <<0, 0>>
    /\ calcNow = 0
    /\ calcOut = [done |-> FALSE, next |-> NaN, last |-> NaN, app |-> 0]

Init ==
    /\ now = StartNow
    /\ phase = "loading"
    /\ games = <<>>
    /\ activeTimers = <<>>
    /\ notifications = <<>>
    /\ notificationPermission = "default"
    /\ storage = [timers |-> [present |-> FALSE, value |-> <<>>],
                  notifications |-> [present |-> FALSE, value |-> <<>>]]
    /\ pending = {}
    /\ nextHandle \in 0..MaxForeign
    /\ nextId = 0
    /\ sessions = 1
    /\ sent = [id \in Ids |-> 0]
    /\ shown = [id \in Ids |-> 0]
    /\ cancelled = {}
    /\ lastOp = Op("loadFromStorage", 0, "")
    /\ NoCalc
    /\ NoLists /\ NoIo /\ NoStore /\ NoLoader

\* Every handler of an open page.
NextOpen ==
    \/ \E label \in LabelChoices, hours \in HoursChoices, minutes \in MinutesChoices :
           setCustomTimer(label, hours, minutes)
    \/ \E gameId \in GameIdChoices, serverName \in ServerNameChoices,
          minutesBefore \in MinutesBeforeChoices :
           scheduleResetNotification(gameId, serverName, minutesBefore)
    \/ \E timerId \in 1..nextId : CancelTimer(timerId)
    \/ \E p \in pending : TimerCallback(p)
    \/ UpdateInterval
    \/ \E loaded \in CatalogChoices : InitDone(loaded)
    \/ \E permission \in {"granted", "default"} :
           requestNotificationPermission(permission)
    \/ Tick

Reload == \E base \in 0..MaxForeign : LoadPage(base)

Next == NextOpen \/ Reload

Spec == Init /\ [][Next]_vars

\* The page stays open.  Time passes, a due timeout callback runs, the 1 Hz
\* interval keeps ticking and the catalog fetch settles.
Fairness ==
    /\ WF_vars(Tick)
    /\ WF_vars(\E p \in pending : TimerCallback(p))
    /\ WF_vars(UpdateInterval)
    /\ WF_vars(\E loaded \in CatalogChoices : InitDone(loaded))

SpecOpen == Init /\ [][NextOpen]_vars /\ Fairness

(***************************************************************************)
(* The calculators on their own: one call for a server and an instant.     *)
(***************************************************************************)
CalcNowSteps == 52          \* instants tried: steps of CalcStepMs from CalcStart
CalcStepMs == 30 * MsPerMinute
CalcStart == MsPerDay

\* Offsets in minutes: -12h, -8h, -3.5h, 0, +5.5h, +5.75h, +9h, +14h.
CalcOffsets == {-720, -480, -210, 0, 330, 345, 540, 840}
CalcResets == {<<0, 0>>, <<5, 0>>, <<12, 30>>, <<23, 59>>}
CalcNows == {CalcStart + k * CalcStepMs + d : k \in 0..CalcNowSteps, d \in {-1, 0, 1}}

InitCalc ==
    /\ now = StartNow
    /\ phase = "loading"
    /\ games = <<>>
    /\ activeTimers = <<>>
    /\ notifications = <<>>
    /\ notificationPermission = "default"
    /\ storage = [timers |-> [present |-> FALSE, value |-> <<>>],
                  notifications |-> [present |-> FALSE, value |-> <<>>]]
    /\ pending = {}
    /\ nextHandle = 0
    /\ nextId = 0
    /\ sessions = 1
    /\ sent = [id \in Ids |-> 0]
    /\ shown = [id \in Ids |-> 0]
    /\ cancelled = {}
    /\ lastOp = Op("loadFromStorage", 0, "")
    /\ calcReset \in CalcResets
    /\ \E offsetMin \in CalcOffsets :
           calcServer = Server("s", offsetMin, TimeString(calcReset[1], calcReset[2]))
    /\ calcNow \in CalcNows
    /\ calcOut = [done |-> FALSE, next |-> NaN, last |-> NaN, app |-> 0]
    /\ NoLists /\ NoIo /\ NoStore /\ NoLoader

Calculate ==
    /\ ~calcOut.done
    /\ calcOut' = [done |-> TRUE,
                   next |-> getNextResetUtc(calcServer, calcNow),
                   last |-> getLastResetUtc(calcServer, calcNow),
                   app |-> getNextResetUtcForServer(calcServer, calcNow)]
    /\ UNCHANGED <<timerVars, calcServer, calcReset, calcNow, restVars>>

NextCalc == Calculate

SpecCalc == InitCalc /\ [][NextCalc]_vars

(***************************************************************************)
(* The checklist tracker of the dailies page.  Game ids, server names and   *)
(* checklist keys are sequences of characters.                             *)
(***************************************************************************)
\* const key = `${gameId}:${serverName}`
Key(gameId, serverName) == gameId \o <<":">> \o serverName

\* const [gameId, serverName] = key.split(':'): the first two parts.
KeyParts(key) ==
    LET parts == Split(key, ":")
    IN  [gameId |-> parts[1],
         serverName |-> IF Len(parts) >= 2 THEN parts[2] ELSE <<>>]

\* server.dailyReset.split(...) is a TypeError when dailyReset is no string.
DailiesThrows(server) == ~server.resetIsString

\* The catalogs GET /api/games answers with.  The game is a favorite and none
\* of its servers is hidden.
GameG == <<"g">>
Asia == <<"A", "s", "i", "a">>
Global == <<"G", "l", "o", "b", "a", "l">>
EuWest == <<"E", "U", ":", "W">>

ListGame(servers) == << [id |-> GameG, name |-> <<"G">>, servers |-> servers] >>
AsiaServer == Server(Asia, 9 * 60, TimeString(5, 0))
GlobalServer == Server(Global, 0, TimeString(0, 0))
EuWestServer == Server(EuWest, 9 * 60, TimeString(5, 0))
\* Global with dailyReset: 300 (a number) and with dailyReset: "ab:cd"
GlobalNoString == [GlobalServer EXCEPT !.dailyReset = <<>>, !.resetIsString = FALSE]
GlobalNoDigits == [GlobalServer EXCEPT !.dailyReset = <<"a", "b", ":", "c", "d">>]

SoundCatalogs ==
    { ListGame(<<AsiaServer, GlobalServer>>),
      ListGame(<<GlobalServer>>),
      <<>>,
      ListGame(<<EuWestServer, GlobalServer>>) }
MalformedCatalogs ==
    { ListGame(<<GlobalNoString, AsiaServer>>),
      ListGame(<<GlobalNoDigits, AsiaServer>>) }
ListCatalogs == SoundCatalogs \cup MalformedCatalogs

\* Instants of the checklist runs: the Asia reset is at ResetAsia (20:00Z),
\* the Global reset four hours later; the last instant is past both.
MaxItems == 2        \* checklist items created in one behaviour
MaxLoads == 2        \* page loads in one behaviour of the checklist tracker
ResetAsia == MsPerDay + 20 * MsPerHour
ListStart == ResetAsia - MsPerHour
ListInstants ==
    {ListStart, ResetAsia - 1, ResetAsia, ResetAsia + MsPerHour,
     ResetAsia + MsPerDay}
\* A second clock read in the same handler returns the same millisecond or
\* the next one.
LaterReads == {r \in {now, now + 1} : r \in ListInstants}

HasKey(lists, key) == \E i \in DOMAIN lists : lists[i].key = key
IndexOf(lists, key) == CHOOSE i \in DOMAIN lists : lists[i].key = key

\* getChecklist(gameId, serverName) at the instant at.  by and seen are not
\* fields of the program: by is the pair the entry was created for, seen the
\* reset instant the last detecting sweep compared against.
getChecklist(lists, gameId, serverName, at) ==
    IF HasKey(lists, Key(gameId, serverName)) THEN lists
    ELSE Append(lists, [key |-> Key(gameId, serverName), items |-> <<>>,
                        lastResetCheck |-> at,
                        by |-> <<gameId, serverName>>, seen |-> 0])

saveChecklists(lists) == [present |-> TRUE, value |-> lists]

\* getFavoriteGamesWithServers: every server of every game, in order.
RECURSIVE getFavoriteGamesWithServers(_)
getFavoriteGamesWithServers(gs) ==
    IF gs = <<>> THEN <<>>
    ELSE [i \in DOMAIN Head(gs).servers |->
             [gameId |-> Head(gs).id, server |-> Head(gs).servers[i]]]
         \o getFavoriteGamesWithServers(Tail(gs))

\* renderGameChecklists: one card per favorite server, each made by
\* createGameChecklistCard: getChecklist, then getCountdownToReset(server),
\* which throws for a dailyReset that is no string and ends the pass.
RECURSIVE RenderCards(_, _, _)
RenderCards(acc, favorites, at) ==
    IF favorites = <<>> THEN acc
    ELSE LET f == Head(favorites)
             lists == getChecklist(acc.lists, f.gameId, f.server.name, at)
         IN  IF DailiesThrows(f.server)
             THEN [lists |-> lists, rendered |-> acc.rendered, threw |-> TRUE]
             ELSE RenderCards([lists |-> lists,
                               rendered |-> acc.rendered
                                   \cup {Key(f.gameId, f.server.name)},
                               threw |-> FALSE],
                              Tail(favorites), at)

renderGameChecklists(lists, gs, at) ==
    RenderCards([lists |-> lists, rendered |-> {}, threw |-> FALSE],
                getFavoriteGamesWithServers(gs), at)

\* The game and server a key resolves to in the catalog gs, <<>> when none.
ResolveIn(gs, key) ==
    LET parts == KeyParts(key)
        found == SelectSeq(gs, LAMBDA g : g.id = parts.gameId)
    IN  IF found = <<>> THEN <<>>
        ELSE SelectSeq(found[1].servers, LAMBDA s : s.name = parts.serverName)

Unchecked(items) == [i \in DOMAIN items |-> [items[i] EXCEPT !.checked = FALSE]]

\* A sweep that stops at a key whose game or server is gone.
SweepEntrySkipsScan(gs, e, at, read) ==
    LET server == ResolveIn(gs, e.key)
    IN  IF server = <<>> THEN [entry |-> e, threw |-> TRUE]
        ELSE IF DailiesThrows(server[1]) THEN [entry |-> e, threw |-> TRUE]
        ELSE LET lastResetUtc == getLastResetUtc(server[1], read)
             IN  IF ~lastResetUtc.nan /\ lastResetUtc.v > e.lastResetCheck
                 THEN [entry |-> [e EXCEPT !.items = Unchecked(e.items),
                                           !.lastResetCheck = at,
                                           !.seen = lastResetUtc.v],
                       threw |-> FALSE]
                 ELSE [entry |-> e, threw |-> FALSE]

\* A sweep that compares with # and stores the reset instant it found.
SweepEntryStoresReset(gs, e, at, read) ==
    LET server == ResolveIn(gs, e.key)
    IN  IF server = <<>> THEN [entry |-> e, threw |-> FALSE]
        ELSE IF DailiesThrows(server[1]) THEN [entry |-> e, threw |-> TRUE]
        ELSE LET lastResetUtc == getLastResetUtc(server[1], read)
             IN  IF ~lastResetUtc.nan /\ lastResetUtc.v # e.lastResetCheck
                 THEN [entry |-> [e EXCEPT !.items = Unchecked(e.items),
                                           !.lastResetCheck = lastResetUtc.v,
                                           !.seen = lastResetUtc.v],
                       threw |-> FALSE]
                 ELSE [entry |-> e, threw |-> FALSE]

\* The body of checkAutoReset's forEach for the entry e: at is the sweep's
\* Date.now(), read the instant getLastResetUtc reads from the clock.
SweepEntry(gs, e, at, read) ==
    LET Compare(lastResetUtc) ==
            IF ~lastResetUtc.nan /\ lastResetUtc.v > e.lastResetCheck
            THEN [entry |-> [e EXCEPT !.items = Unchecked(e.items),
                                      !.lastResetCheck = at,
                                      !.seen = lastResetUtc.v],
                  threw |-> FALSE]
            ELSE [entry |-> e, threw |-> FALSE]
        Resolved(server) ==
            IF server = <<>> THEN [entry |-> e, threw |-> FALSE]
            ELSE IF DailiesThrows(server[1]) THEN [entry |-> e, threw |-> TRUE]
            ELSE Compare(getLastResetUtc(server[1], read))
    IN  Resolved(ResolveIn(gs, e.key))

\* Object.keys(this.checklists).forEach(...) from entry i on; a throw ends it.
RECURSIVE SweepFrom(_, _, _, _, _)
SweepFrom(gs, lists, i, at, read) ==
    LET Swept(r) ==
            IF r.threw THEN [lists |-> lists, threw |-> TRUE]
            ELSE SweepFrom(gs, [lists EXCEPT ![i] = r.entry], i + 1, at, read)
    IN  IF i > Len(lists) THEN [lists |-> lists, threw |-> FALSE]
        ELSE Swept(SweepEntry(gs, lists[i], at, read))

\* checkAutoReset: the sweep, then saveChecklists unless the sweep threw.
checkAutoReset(gs, lists, stored, at, read) ==
    LET Saved(r) ==
            [lists |-> r.lists, threw |-> r.threw,
             stored |-> IF r.threw THEN stored ELSE saveChecklists(r.lists)]
    IN  Saved(SweepFrom(gs, lists, 1, at, read))

\* A page load: loadFromStorage, loadGames, renderGameChecklists,
\* startUpdateInterval and the first checkAutoReset.  A throw in the render
\* pass rejects init(): no interval is started and no sweep runs.
ListInit(catalog, read) ==
    LET loaded == IF storedChecklists.present THEN storedChecklists.value ELSE <<>>
        Swept(s) ==
            /\ phase' = "running"
            /\ checklists' = s.lists
            /\ storedChecklists' = s.stored
            /\ now' = read
    IN  /\ sessions < MaxLoads
        /\ sessions' = sessions + 1
        /\ games' = catalog
        /\ \E r \in {renderGameChecklists(loaded, catalog, now)} :
               /\ rendered' = r.rendered
               /\ IF r.threw
                  THEN /\ phase' = "aborted"
                       /\ checklists' = r.lists
                       /\ storedChecklists' = storedChecklists
                       /\ now' = now
                  ELSE Swept(checkAutoReset(catalog, r.lists, storedChecklists,
                                            now, read))
               /\ listOp' = [op |-> "init", at |-> now, threw |-> r.threw]
        /\ UNCHANGED <<activeTimers, notifications, notificationPermission,
                       storage, pending, nextHandle, nextId, sent, shown,
                       cancelled, lastOp, itemIds, calcVars, ioVars, storeVars, loaderVars>>

\* What a handler leaves behind after its closing renderGameChecklists.
AfterRender(lists) ==
    LET r == renderGameChecklists(lists, games, now)
    IN  /\ checklists' = r.lists
        /\ rendered' = r.rendered

ListFrame ==
    UNCHANGED <<now, phase, games, activeTimers, notifications,
                notificationPermission, storage, pending, nextHandle, nextId,
                sessions, sent, shown, cancelled, lastOp, calcVars, ioVars,
                storeVars, loaderVars>>

ItemLabels == {<<"a">>}

\* The add-item modal of a rendered card: createChecklistItem.  An item's
\* createdAt is written here and read nowhere; it is left out.
createChecklistItem(gameId, serverName, label) ==
    LET lists == getChecklist(checklists, gameId, serverName, now)
        i == IndexOf(lists, Key(gameId, serverName))
        item == [id |-> itemIds + 1, label |-> Trim(label), checked |-> FALSE]
        pushed == [lists EXCEPT ![i].items = Append(@, item)]
    IN  /\ itemIds < MaxItems
        /\ itemIds' = itemIds + 1
        /\ storedChecklists' = saveChecklists(pushed)
        /\ AfterRender(pushed)
        /\ listOp' = [op |-> "createChecklistItem", at |-> now, threw |-> FALSE]
        /\ ListFrame

\* A find that falls back to the first item.
FindOrFirst(items, itemId) ==
    IF \E k \in DOMAIN items : items[k].id = itemId
    THEN CHOOSE k \in DOMAIN items :
             /\ items[k].id = itemId
             /\ \A j \in 1..(k - 1) : items[j].id # itemId
    ELSE IF items = <<>> THEN 0 ELSE 1

\* checklist.items.find(i => i.id === itemId): the index of the first item
\* with that id, 0 for undefined.
Find(items, itemId) ==
    IF \E k \in DOMAIN items : items[k].id = itemId
    THEN CHOOSE k \in DOMAIN items :
             /\ items[k].id = itemId
             /\ \A j \in 1..(k - 1) : items[j].id # itemId
    ELSE 0

\* toggleCheckItem: getChecklist, find, and only for a found item the flip,
\* saveChecklists and renderGameChecklists.
toggleCheckItem(gameId, serverName, itemId) ==
    LET lists == getChecklist(checklists, gameId, serverName, now)
        i == IndexOf(lists, Key(gameId, serverName))
        item == Find(lists[i].items, itemId)
        toggled == [lists EXCEPT ![i].items[item].checked = ~@]
    IN  /\ IF item # 0
           THEN /\ storedChecklists' = saveChecklists(toggled)
                /\ AfterRender(toggled)
           ELSE /\ checklists' = lists
                /\ UNCHANGED <<storedChecklists, rendered>>
        /\ listOp' = [op |-> "toggleCheckItem", at |-> now, threw |-> FALSE]
        /\ UNCHANGED itemIds
        /\ ListFrame

\* deleteChecklistItem: for a key that has a checklist the filter,
\* saveChecklists and renderGameChecklists; nothing for any other key.
deleteChecklistItem(gameId, serverName, itemId) ==
    LET key == Key(gameId, serverName)
        i == IndexOf(checklists, key)
        filtered == [checklists EXCEPT ![i].items =
                        SelectSeq(@, LAMBDA it : it.id # itemId)]
    IN  /\ IF HasKey(checklists, key)
           THEN /\ storedChecklists' = saveChecklists(filtered)
                /\ AfterRender(filtered)
           ELSE UNCHANGED <<checklists, storedChecklists, rendered>>
        /\ listOp' = [op |-> "deleteChecklistItem", at |-> now, threw |-> FALSE]
        /\ UNCHANGED itemIds
        /\ ListFrame

\* A tick of the 1 Hz interval: updateCountdowns (every rendered card has a
\* string dailyReset, so it does not throw), then checkAutoReset.
ListInterval(read) ==
    LET Swept(s) ==
            /\ checklists' = s.lists
            /\ storedChecklists' = s.stored
            /\ listOp' = [op |-> "checkAutoReset", at |-> now, threw |-> s.threw]
    IN  /\ phase = "running"
        /\ Swept(checkAutoReset(games, checklists, storedChecklists, now, read))
        /\ now' = read
        /\ UNCHANGED <<phase, games, activeTimers, notifications,
                       notificationPermission, storage, pending, nextHandle,
                       nextId, sessions, sent, shown, cancelled, lastOp,
                       rendered, itemIds, calcVars, ioVars, storeVars, loaderVars>>

\* Time passes.
ListTick(later) ==
    /\ later > now
    /\ now' = later
    /\ listOp' = [op |-> "tick", at |-> now, threw |-> FALSE]
    /\ UNCHANGED <<phase, games, activeTimers, notifications,
                   notificationPermission, storage, pending, nextHandle,
                   nextId, sessions, sent, shown, cancelled, lastOp,
                   checklists, storedChecklists, rendered, itemIds,
                   calcVars, ioVars, storeVars, loaderVars>>

\* The page before its first load, on an empty localStorage.
InitLists ==
    /\ now = ListStart
    /\ phase = "loading"
    /\ games = <<>>
    /\ activeTimers = <<>>
    /\ notifications = <<>>
    /\ notificationPermission = "default"
    /\ storage = [timers |-> [present |-> FALSE, value |-> <<>>],
                  notifications |-> [present |-> FALSE, value |-> <<>>]]
    /\ pending = {}
    /\ nextHandle = 0
    /\ nextId = 0
    /\ sessions = 0
    /\ sent = [id \in Ids |-> 0]
    /\ shown = [id \in Ids |-> 0]
    /\ cancelled = {}
    /\ lastOp = Op("other", 0, "")
    /\ NoCalc /\ NoLists /\ NoIo /\ NoStore /\ NoLoader

ItemIds == 1..MaxItems

\* The cards in the document: their listeners hold game.id and server.name.
Cards ==
    {f \in {getFavoriteGamesWithServers(games)[i] :
                i \in DOMAIN getFavoriteGamesWithServers(games)} :
        Key(f.gameId, f.server.name) \in rendered}

\* The card of that key shows an item with that id: its checkbox and its
\* delete button are the only callers of the two handlers in the page.
Shown(gameId, serverName, itemId) ==
    /\ HasKey(checklists, Key(gameId, serverName))
    /\ Find(checklists[IndexOf(checklists, Key(gameId, serverName))].items,
            itemId) # 0

NextLists ==
    \/ \E catalog \in ListCatalogs, read \in LaterReads : ListInit(catalog, read)
    \/ \E f \in Cards, label \in ItemLabels :
           createChecklistItem(f.gameId, f.server.name, label)
    \/ \E f \in Cards, itemId \in ItemIds :
           /\ Shown(f.gameId, f.server.name, itemId)
           /\ toggleCheckItem(f.gameId, f.server.name, itemId)
    \/ \E f \in Cards, itemId \in ItemIds :
           /\ Shown(f.gameId, f.server.name, itemId)
           /\ deleteChecklistItem(f.gameId, f.server.name, itemId)
    \/ \E read \in LaterReads : ListInterval(read)
    \/ \E later \in ListInstants : ListTick(later)

SpecLists == InitLists /\ [][NextLists]_vars

(***************************************************************************)
(* Countdowns and formatted times, as text (sequences of characters).      *)
(***************************************************************************)
MsPerSecond == 1000

\* String(n) for an integer n >= 0.
RECURSIVE ToDecimal(_)
ToDecimal(n) ==
    IF n < 10 THEN <<DigitChar(n)>>
    ELSE ToDecimal(n \div 10) \o <<DigitChar(n % 10)>>

NaNText == <<"N", "a", "N">>
InvalidTime == <<"I", "n", "v", "a", "l", "i", "d", " ", "T", "i", "m", "e">>

\* Components with the seconds rounded to the nearest instead of down.
ComponentsRounded(diff) ==
    LET h == diff \div MsPerHour
        afterHours == diff - h * MsPerHour
        m == afterHours \div MsPerMinute
        afterMinutes == afterHours - m * MsPerMinute
    IN  [h |-> h, m |-> m, s |-> (afterMinutes + MsPerSecond \div 2) \div MsPerSecond]

\* The three Math.floor steps both countdown functions apply to diff > 0.
Components(diff) ==
    LET h == diff \div MsPerHour
        afterHours == diff - h * MsPerHour
        m == afterHours \div MsPerMinute
        afterMinutes == afterHours - m * MsPerMinute
    IN  [h |-> h, m |-> m, s |-> afterMinutes \div MsPerSecond]

\* `${h}H ${m}M ${s}S`
CountdownText(c) ==
    ToDecimal(c.h) \o <<"H", " ">> \o ToDecimal(c.m) \o <<"M", " ">>
        \o ToDecimal(c.s) \o <<"S">>

\* App.getServerCountdown(game, server), landing page.  The clock is read
\* twice: nowUtc (at) first, then inside getNextResetUtcForServer (read).
getServerCountdown(server, at, read) ==
    LET diff == getNextResetUtcForServer(server, read) - at
    IN  IF diff <= 0
        THEN [nan |-> FALSE, diff |-> diff, h |-> 0, m |-> 0, s |-> 0,
              text |-> <<"0", "0", "H", " ", "0", "0", "M", " ", "0", "0", "S">>]
        ELSE [nan |-> FALSE, diff |-> diff, h |-> Components(diff).h, m |-> Components(diff).m,
              s |-> Components(diff).s, text |-> CountdownText(Components(diff))]

\* DailiesApp.getCountdownToReset(server): NaN <= 0 is false and Math.floor
\* of NaN is NaN, so a NaN reset instant gives "NaNH NaNM NaNS".
\* The clock is read inside getNextResetUtc (at), then by Date.now() (read).
getCountdownToReset(server, at, read) ==
    LET nextResetUtc == getNextResetUtc(server, at)
        diff == nextResetUtc.v - read
    IN  IF nextResetUtc.nan
        THEN [nan |-> TRUE, diff |-> 0, h |-> 0, m |-> 0, s |-> 0,
              text |-> NaNText \o <<"H", " ">> \o NaNText \o <<"M", " ">>
                           \o NaNText \o <<"S">>]
        ELSE IF diff <= 0
        THEN [nan |-> FALSE, diff |-> diff, h |-> 0, m |-> 0, s |-> 0,
              text |-> <<"0", "0", "H", " ", "0", "0", "M">>]
        ELSE [nan |-> FALSE, diff |-> diff, h |-> Components(diff).h, m |-> Components(diff).m,
              s |-> Components(diff).s, text |-> CountdownText(Components(diff))]

\* minutes.toString().padStart(2, '0')
PadStart2(text) == IF Len(text) < 2 THEN <<"0">> \o text ELSE text

\* App.formatResetTime(time24); isString tells whether time24 is a string.
formatResetTime(time24, isString) ==
    LET timeParts == Split(time24, ":")
    IN  IF ~isString \/ time24 = <<>> THEN InvalidTime
        ELSE IF Len(timeParts) # 2 THEN InvalidTime
        ELSE LET hours24 == ParseInt(timeParts[1])
                 minutes == ParseInt(timeParts[2])
             IN  IF hours24.nan \/ minutes.nan THEN InvalidTime
                 ELSE IF hours24.v < 0 \/ hours24.v > 23
                         \/ minutes.v < 0 \/ minutes.v > 59 THEN InvalidTime
                 ELSE LET hours12 == IF hours24.v % 12 = 0 THEN 12 ELSE hours24.v % 12
                      IN  ToDecimal(hours12) \o <<":">> \o PadStart2(ToDecimal(minutes.v))
                              \o <<" ">> \o (IF hours24.v >= 12 THEN <<"P", "M">>
                                                                ELSE <<"A", "M">>)

\* App.getServerCurrentTime(server): the sentinel, or the server's wall clock
\* (hour: 'numeric', minute and second: '2-digit', hour12).
getServerCurrentTime(server, at) ==
    IF ~server.offsetIsNumber THEN InvalidTime
    ELSE LET ofDay == (at + OffsetMs(server)) % MsPerDay
             c == Components(ofDay)
             hours12 == IF c.h % 12 = 0 THEN 12 ELSE c.h % 12
         IN  ToDecimal(hours12) \o <<":">> \o PadStart2(ToDecimal(c.m)) \o <<":">>
                 \o PadStart2(ToDecimal(c.s)) \o <<" ">>
                 \o (IF c.h >= 12 THEN <<"P", "M">> ELSE <<"A", "M">>)

\* What a call of a dailies calculator ends in: a TypeError where
\* server.dailyReset.split is no function, else its result.
Outcome(server, result) ==
    IF DailiesThrows(server) THEN [threw |-> TRUE, nan |-> FALSE, v |-> 0]
    ELSE [threw |-> FALSE, nan |-> result.nan, v |-> result.v]

\* What a call of getCountdownToReset ends in.
CountdownOutcome(server, c) ==
    IF DailiesThrows(server)
    THEN [threw |-> TRUE, nan |-> FALSE, diff |-> 0, h |-> 0, m |-> 0, s |-> 0,
          text |-> <<>>]
    ELSE [threw |-> FALSE, nan |-> c.nan, diff |-> c.diff, h |-> c.h, m |-> c.m,
          s |-> c.s, text |-> c.text]

(***************************************************************************)
(* The calculators on server entries the catalog loader lets through       *)
(* unvalidated: one call of each for an entry and an instant.              *)
(***************************************************************************)
\* dailyReset texts that are not HH:MM with hour 0..23 and minute 0..59.
MalformedResets ==
    { <<"a", "b", ":", "c", "d">>,
      <<"0", "5", "0", "0">>,
      <<"2", "5", ":", "0", "0">>,
      <<"1", "2", ":", "7", "5">>,
      <<"0", "5", ":", "0", "0", ":", "0", "0">>,
      <<"5", "x", ":", "0", "0">>,
      <<>> }

MalformedOffsets == {0, 9 * 60}

MalformedServers ==
    { [Server("s", offsetMin, dailyReset) EXCEPT !.resetIsString = TRUE] :
          offsetMin \in MalformedOffsets, dailyReset \in MalformedResets }
    \cup { [Server("s", offsetMin, <<>>) EXCEPT !.resetIsString = FALSE] :
               offsetMin \in MalformedOffsets }
    \cup { [Server("s", 0, TimeString(5, 0)) EXCEPT !.offsetIsNumber = FALSE],
           [Server("s", 0, <<"a", "b", ":", "c", "d">>) EXCEPT !.offsetIsNumber = FALSE] }

MalformedNows ==
    {MsPerDay + 20 * MsPerHour - 1, MsPerDay + 20 * MsPerHour,
     MsPerDay + 5 * MsPerHour, 2 * MsPerDay - 1}

InitMalformed ==
    /\ now = StartNow
    /\ phase = "loading"
    /\ games = <<>>
    /\ activeTimers = <<>>
    /\ notifications = <<>>
    /\ notificationPermission = "default"
    /\ storage = [timers |-> [present |-> FALSE, value |-> <<>>],
                  notifications |-> [present |-> FALSE, value |-> <<>>]]
    /\ pending = {}
    /\ nextHandle = 0
    /\ nextId = 0
    /\ sessions = 1
    /\ sent = [id \in Ids |-> 0]
    /\ shown = [id \in Ids |-> 0]
    /\ cancelled = {}
    /\ lastOp = Op("loadFromStorage", 0, "")
    /\ calcReset = <<0, 0>>
    /\ calcServer \in MalformedServers
    /\ calcNow \in MalformedNows
    /\ calcOut = [done |-> FALSE]
    /\ NoLists /\ NoIo /\ NoStore /\ NoLoader

CalculateMalformed ==
    /\ ~calcOut.done
    /\ \E read \in {calcNow, calcNow + 1} :
           calcOut' =
               [done |-> TRUE,
                next |-> Outcome(calcServer, getNextResetUtc(calcServer, calcNow)),
                last |-> Outcome(calcServer, getLastResetUtc(calcServer, calcNow)),
                countdown |-> CountdownOutcome(calcServer,
                                  getCountdownToReset(calcServer, calcNow, read)),
                app |-> getNextResetUtcForServer(calcServer, calcNow),
                appCountdown |-> getServerCountdown(calcServer, calcNow, read),
                format |-> formatResetTime(calcServer.dailyReset,
                                           calcServer.resetIsString),
                clock |-> getServerCurrentTime(calcServer, calcNow)]
    /\ UNCHANGED <<timerVars, calcServer, calcReset, calcNow, restVars>>

NextMalformed == CalculateMalformed

SpecMalformed == InitMalformed /\ [][NextMalformed]_vars

(***************************************************************************)
(* The dailies page's localStorage partitions.  A partition's content is   *)
(* "empty" (its default), "data" (what the user had stored before the      *)
(* load, possibly extended) or "fresh" (written after a load that did not  *)
(* bring the stored data into memory).                                     *)
(***************************************************************************)
\* The keys in the order loadFromStorage reads them.
LoadOrder == <<"favorites", "settings", "checklists", "notifications", "timers",
               "hidden">>
Partitions == {LoadOrder[i] : i \in DOMAIN LoadOrder}

Absent == [state |-> "absent", value |-> "empty"]
Corrupt == [state |-> "corrupt", value |-> "empty"]
Valid(value) == [state |-> "valid", value |-> value]

Defaults == [p \in Partitions |-> "empty"]

\* The index in LoadOrder of the first key JSON.parse throws on, 0 when none.
FirstCorrupt(st) ==
    IF \A i \in DOMAIN LoadOrder : st[LoadOrder[i]].state # "corrupt" THEN 0
    ELSE CHOOSE i \in DOMAIN LoadOrder :
             /\ st[LoadOrder[i]].state = "corrupt"
             /\ \A j \in 1..(i - 1) : st[LoadOrder[j]].state # "corrupt"

\* loadFromStorage with one try/catch for every key.
loadFromStorageAll(st) ==
    LET c == FirstCorrupt(st)
        read == [p \in Partitions |->
                    LET i == CHOOSE k \in DOMAIN LoadOrder : LoadOrder[k] = p
                    IN  IF (c = 0 \/ i < c) /\ st[p].state = "valid"
                        THEN st[p].value ELSE "empty"]
    IN  IF c = 0 THEN read
        ELSE [read EXCEPT !["checklists"] = "empty",
                          !["notifications"] = "empty",
                          !["timers"] = "empty"]

\* What memory holds after the user changed it: stored data stays in it.
Edited(value) == IF value = "data" THEN "data" ELSE "fresh"

StoreFrame ==
    UNCHANGED <<timerVars, calcVars, listVars, ioVars, loaderVars>>

\* init(): loadFromStorage; runs whose timers key parses save the timers
\* again (line 216).
StoreLoad ==
    /\ ~mem.loaded
    /\ mem' = [loaded |-> TRUE, part |-> loadFromStorageAll(store), origin |-> store]
    /\ store' = IF store["timers"].state = "valid"
                     /\ (FirstCorrupt(store) = 0
                            \/ LoadOrder[FirstCorrupt(store)] = "hidden")
                THEN [store EXCEPT !["timers"] = Valid(store["timers"].value)]
                ELSE store
    /\ StoreFrame

\* checkAutoReset on init and on every 1 Hz tick ends in saveChecklists.
StoreInterval ==
    /\ mem.loaded
    /\ store' = [store EXCEPT !["checklists"] = Valid(mem.part["checklists"])]
    /\ UNCHANGED mem
    /\ StoreFrame

\* A handler that changes one partition in memory and saves it:
\* createChecklistItem, scheduleResetNotification, setCustomTimer, a settings
\* toggle, unhideServer.
StoreEdit(p) ==
    /\ mem.loaded
    /\ p \in {"checklists", "notifications", "timers", "settings", "hidden"}
    /\ mem' = [mem EXCEPT !.part[p] = Edited(@)]
    /\ store' = [store EXCEPT ![p] = Valid(Edited(mem.part[p]))]
    /\ StoreFrame

\* The page is closed and opened again.
StoreReload ==
    /\ mem.loaded
    /\ mem' = [loaded |-> FALSE, part |-> Defaults, origin |-> store]
    /\ UNCHANGED store
    /\ StoreFrame

\* localStorage before the page is opened: every key absent, holding the
\* user's data, or holding text that is no JSON; at most one key is corrupt.
InitStore ==
    /\ now = StartNow
    /\ phase = "loading"
    /\ games = <<>>
    /\ activeTimers = <<>>
    /\ notifications = <<>>
    /\ notificationPermission = "default"
    /\ storage = [timers |-> [present |-> FALSE, value |-> <<>>],
                  notifications |-> [present |-> FALSE, value |-> <<>>]]
    /\ pending = {}
    /\ nextHandle = 0
    /\ nextId = 0
    /\ sessions = 1
    /\ sent = [id \in Ids |-> 0]
    /\ shown = [id \in Ids |-> 0]
    /\ cancelled = {}
    /\ lastOp = Op("loadFromStorage", 0, "")
    /\ NoCalc /\ NoLists /\ NoIo /\ NoLoader
    /\ store \in [Partitions -> {Absent, Corrupt, Valid("data")}]
    /\ Cardinality({p \in Partitions : store[p].state = "corrupt"}) <= 1
    /\ mem = [loaded |-> FALSE, part |-> Defaults, origin |-> store]

NextStore ==
    \/ StoreLoad
    \/ StoreInterval
    \/ \E p \in Partitions : StoreEdit(p)
    \/ StoreReload

SpecStore == InitStore /\ [][NextStore]_vars

(***************************************************************************)
(* The two countdowns on valid server entries: one call of each for a      *)
(* server and an instant.                                                  *)
(***************************************************************************)
InitCountdown ==
    /\ now = StartNow
    /\ phase = "loading"
    /\ games = <<>>
    /\ activeTimers = <<>>
    /\ notifications = <<>>
    /\ notificationPermission = "default"
    /\ storage = [timers |-> [present |-> FALSE, value |-> <<>>],
                  notifications |-> [present |-> FALSE, value |-> <<>>]]
    /\ pending = {}
    /\ nextHandle = 0
    /\ nextId = 0
    /\ sessions = 1
    /\ sent = [id \in Ids |-> 0]
    /\ shown = [id \in Ids |-> 0]
    /\ cancelled = {}
    /\ lastOp = Op("loadFromStorage", 0, "")
    /\ calcReset \in CalcResets
    /\ \E offsetMin \in CalcOffsets :
           calcServer = Server("s", offsetMin, TimeString(calcReset[1], calcReset[2]))
    /\ calcNow \in CalcNows
    /\ calcOut = [done |-> FALSE]
    /\ NoLists /\ NoIo /\ NoStore /\ NoLoader

CalculateCountdown ==
    /\ ~calcOut.done
    /\ \E read \in {calcNow, calcNow + 1} :
           calcOut' =
               [done |-> TRUE, read |-> read,
                next |-> getNextResetUtc(calcServer, calcNow),
                app |-> getNextResetUtcForServer(calcServer, calcNow),
                countdown |-> getCountdownToReset(calcServer, calcNow, read),
                appCountdown |-> getServerCountdown(calcServer, calcNow, read)]
    /\ UNCHANGED <<timerVars, calcServer, calcReset, calcNow, restVars>>

NextCountdown == CalculateCountdown

SpecCountdown == InitCountdown /\ [][NextCountdown]_vars

(***************************************************************************)
(* The two submission routes, POST /api/game-request and                   *)
(* POST /api/report-issue.  A body field is absent or a text.              *)
(***************************************************************************)
Missing == [present |-> FALSE, text |-> <<>>]
Text(t) == [present |-> TRUE, text |-> t]
\* !field of the handlers: undefined and '' are falsy.
Falsy(field) == ~field.present \/ field.text = <<>>

FieldChoices == {Missing, Text(<<>>), Text(<<"x">>)}

\* What the webhook answers: ok (2xx), another status, or fetch rejects.
WebhookOutcomes == {"ok", "error", "rejects"}

BadRequest == [status |-> 400, error |-> "Bad Request", sent |-> 0]

\* The handler's steps after its validation.
Forward(webhookUrl, outcome) ==
    IF ~webhookUrl
    THEN [status |-> 500, error |-> "Configuration Error", sent |-> 0]
    ELSE CASE outcome = "ok" -> [status |-> 200, error |-> "", sent |-> 1]
           [] outcome = "error" -> [status |-> 500, error |-> "Webhook Error", sent |-> 1]
           [] OTHER -> [status |-> 500, error |-> "Internal Server Error", sent |-> 1]

\* A handler that looks at DISCORD_WEBHOOK_URL before it validates.
gameRequestConfigFirst(body, webhookUrl, outcome) ==
    IF ~webhookUrl
    THEN [status |-> 500, error |-> "Configuration Error", sent |-> 0]
    ELSE IF Falsy(body.gameName) \/ Falsy(body.gameRegion) \/ Falsy(body.resetTime)
    THEN BadRequest
    ELSE Forward(webhookUrl, outcome)

\* app.post('/api/game-request', ...)
gameRequest(body, webhookUrl, outcome) ==
    IF Falsy(body.gameName) \/ Falsy(body.gameRegion) \/ Falsy(body.resetTime)
    THEN BadRequest
    ELSE Forward(webhookUrl, outcome)

\* app.post('/api/report-issue', ...)
reportIssue(body, webhookUrl, outcome) ==
    IF Falsy(body.gameName) \/ Falsy(body.gameId) \/ Falsy(body.issueDescription)
    THEN BadRequest
    ELSE Forward(webhookUrl, outcome)

\* req.body || {}: a request without a body has every field missing.
GameRequestBodies ==
    [gameName : FieldChoices, gameRegion : FieldChoices, resetTime : FieldChoices]
ReportIssueBodies ==
    [gameName : FieldChoices, gameId : FieldChoices, issueDescription : FieldChoices]

HttpFrame == UNCHANGED <<timerVars, calcVars, listVars, storeVars, loaderVars, request>>

PostGameRequest ==
    /\ request.route = "/api/game-request"
    /\ response.status = 0
    /\ \E outcome \in WebhookOutcomes :
           response' = gameRequest(request.body, request.webhookUrl, outcome)
    /\ HttpFrame

PostReportIssue ==
    /\ request.route = "/api/report-issue"
    /\ response.status = 0
    /\ \E outcome \in WebhookOutcomes :
           response' = reportIssue(request.body, request.webhookUrl, outcome)
    /\ HttpFrame

\* One request, with DISCORD_WEBHOOK_URL set or not.
InitHttp ==
    /\ now = StartNow
    /\ phase = "loading"
    /\ games = <<>>
    /\ activeTimers = <<>>
    /\ notifications = <<>>
    /\ notificationPermission = "default"
    /\ storage = [timers |-> [present |-> FALSE, value |-> <<>>],
                  notifications |-> [present |-> FALSE, value |-> <<>>]]
    /\ pending = {}
    /\ nextHandle = 0
    /\ nextId = 0
    /\ sessions = 1
    /\ sent = [id \in Ids |-> 0]
    /\ shown = [id \in Ids |-> 0]
    /\ cancelled = {}
    /\ lastOp = Op("loadFromStorage", 0, "")
    /\ NoCalc /\ NoLists /\ NoStore /\ NoLoader
    /\ \E webhookUrl \in BOOLEAN :
           \/ \E body \in GameRequestBodies :
                  request = [route |-> "/api/game-request", body |-> body,
                             webhookUrl |-> webhookUrl]
           \/ \E body \in ReportIssueBodies :
                  request = [route |-> "/api/report-issue", body |-> body,
                             webhookUrl |-> webhookUrl]
    /\ response = [status |-> 0, error |-> "", sent |-> 0]

NextHttp == PostGameRequest \/ PostReportIssue

SpecHttp == InitHttp /\ [][NextHttp]_vars

(***************************************************************************)
(* GET /assets/*.  A path is a sequence of segments, a segment a sequence  *)
(* of characters; PathString is the text path.join returns.                *)
(***************************************************************************)
MaxSegments == 4     \* segments of a request path after /assets

Cwd == <<"w">>
SrcName == <<"s", "r", "c">>
PublicName == <<"p", "u", "b", "l", "i", "c">>
PublicOldName == <<"p", "u", "b", "l", "i", "c", "-", "o", "l", "d">>
AssetsName == <<"a", "s", "s", "e", "t", "s">>
SecretName == <<"k", "e", "y">>
DotDot == <<".", ".">>

\* const SRC_PUBLIC_DIR = join(process.cwd(), 'src', 'public')
PUBLIC_DIR == <<Cwd, SrcName, PublicName>>

\* path.normalize on the segments: '..' removes the segment before it and
\* is dropped at the root.
RECURSIVE Normalize(_, _)
Normalize(done, rest) ==
    IF rest = <<>> THEN done
    ELSE IF Head(rest) = DotDot
    THEN Normalize(IF done = <<>> THEN <<>> ELSE SubSeq(done, 1, Len(done) - 1),
                   Tail(rest))
    ELSE Normalize(Append(done, Head(rest)), Tail(rest))

\* join(PUBLIC_DIR, requestPath)
Join(dir, requestPath) == Normalize(<<>>, dir \o requestPath)

RECURSIVE PathString(_)
PathString(segments) ==
    IF segments = <<>> THEN <<>>
    ELSE <<"/">> \o Head(segments) \o PathString(Tail(segments))

\* String.prototype.startsWith
StartsWith(text, prefix) ==
    Len(text) >= Len(prefix) /\ SubSeq(text, 1, Len(prefix)) = prefix

\* The directory dir or a location below it.
Inside(location, dir) ==
    Len(location) >= Len(dir) /\ SubSeq(location, 1, Len(dir)) = dir

\* The disk: directories that are always there, and files that may be.
Directories ==
    { <<>>, <<Cwd>>, <<Cwd, SrcName>>, PUBLIC_DIR, PUBLIC_DIR \o <<AssetsName>>,
      <<Cwd, SrcName, PublicOldName>> }
FileChoices ==
    { PUBLIC_DIR \o <<AssetsName, SecretName>>,
      <<Cwd, SrcName, PublicOldName, SecretName>>,
      <<Cwd, SrcName, SecretName>> }

SegmentChoices == {DotDot, SrcName, PublicName, PublicOldName, SecretName}

RECURSIVE SegmentSeqs(_)
SegmentSeqs(n) ==
    IF n = 0 THEN {<<>>}
    ELSE SegmentSeqs(n - 1)
         \cup {Append(p, s) : p \in {q \in SegmentSeqs(n - 1) : Len(q) = n - 1},
                              s \in SegmentChoices}

\* req.path of a request the route /assets/* matches.
RequestPaths == {<<AssetsName>> \o p : p \in SegmentSeqs(MaxSegments) \ {<<>>}}

\* app.get('/assets/*', ...): the content sent is named by the file's path;
\* readFileSync of a directory throws, which the catch answers with 500.
serveAsset(requestPath, files) ==
    LET filePath == Join(PUBLIC_DIR, requestPath)
    IN  IF ~StartsWith(PathString(filePath), PathString(PUBLIC_DIR))
        THEN [status |-> 403, content |-> <<>>]
        ELSE IF filePath \notin files \cup Directories
        THEN [status |-> 404, content |-> <<>>]
        ELSE IF filePath \in Directories
        THEN [status |-> 500, content |-> <<>>]
        ELSE [status |-> 200, content |-> filePath]

GetAsset ==
    /\ request.route = "/assets/*"
    /\ response.status = 0
    /\ response' = serveAsset(request.path, request.files)
    /\ UNCHANGED <<timerVars, calcVars, listVars, storeVars, loaderVars, request>>

InitAssets ==
    /\ now = StartNow
    /\ phase = "loading"
    /\ games = <<>>
    /\ activeTimers = <<>>
    /\ notifications = <<>>
    /\ notificationPermission = "default"
    /\ storage = [timers |-> [present |-> FALSE, value |-> <<>>],
                  notifications |-> [present |-> FALSE, value |-> <<>>]]
    /\ pending = {}
    /\ nextHandle = 0
    /\ nextId = 0
    /\ sessions = 1
    /\ sent = [id \in Ids |-> 0]
    /\ shown = [id \in Ids |-> 0]
    /\ cancelled = {}
    /\ lastOp = Op("loadFromStorage", 0, "")
    /\ NoCalc /\ NoLists /\ NoStore /\ NoLoader
    /\ \E path \in RequestPaths, files \in SUBSET FileChoices :
           request = [route |-> "/assets/*", path |-> path, files |-> files]
    /\ response = [status |-> 0, content |-> <<>>]

NextAssets == GetAsset

SpecAssets == InitAssets /\ [][NextAssets]_vars

(***************************************************************************)
(* The server's catalog loader, gamesLoader.ts.  A parsed game entry keeps  *)
(* its position in the file (id) and its name; a name is a string or not.  *)
(***************************************************************************)
MaxGames == 2        \* entries of a games array
MaxMtime == 2        \* modification times of games.yaml: 0..MaxMtime

Null == [isNull |-> TRUE, v |-> <<>>]
Some(v) == [isNull |-> FALSE, v |-> v]

\* The collation of localeCompare on the letters used: a < A < b < B.
Primary(c) == IF c \in {"a", "A"} THEN 1 ELSE 2
Upper(c) == c \in {"A", "B"}

RECURSIVE PrimaryCompare(_, _)
PrimaryCompare(s, t) ==
    IF s = <<>> /\ t = <<>> THEN 0
    ELSE IF s = <<>> THEN -1
    ELSE IF t = <<>> THEN 1
    ELSE IF Primary(Head(s)) < Primary(Head(t)) THEN -1
    ELSE IF Primary(Head(s)) > Primary(Head(t)) THEN 1
    ELSE PrimaryCompare(Tail(s), Tail(t))

RECURSIVE CaseCompare(_, _)
CaseCompare(s, t) ==
    IF s = <<>> \/ t = <<>> THEN 0
    ELSE IF ~Upper(Head(s)) /\ Upper(Head(t)) THEN -1
    ELSE IF Upper(Head(s)) /\ ~Upper(Head(t)) THEN 1
    ELSE CaseCompare(Tail(s), Tail(t))

\* a.localeCompare(b) for two strings
localeCompare(s, t) ==
    IF PrimaryCompare(s, t) # 0 THEN PrimaryCompare(s, t) ELSE CaseCompare(s, t)

\* A sort step that leaves the entries in file order.
InsertAtEnd(sorted, x) == Append(sorted, x)

\* One step of the stable sort: x goes behind the entries not after it.
InsertByName(sorted, x) ==
    LET k == Cardinality({i \in DOMAIN sorted :
                             localeCompare(sorted[i].name, x.name) <= 0})
    IN  SubSeq(sorted, 1, k) \o <<x>> \o SubSeq(sorted, k + 1, Len(sorted))

\* [...data.games].sort((a, b) => a.name.localeCompare(b.name))
RECURSIVE SortByName(_)
SortByName(entries) ==
    IF entries = <<>> THEN <<>>
    ELSE InsertByName(SortByName(SubSeq(entries, 1, Len(entries) - 1)),
                      entries[Len(entries)])

\* The comparator runs for every entry of an array of two or more; it throws
\* a TypeError on an entry whose name is no string.
SortThrows(entries) ==
    Len(entries) >= 2 /\ \E i \in DOMAIN entries : ~entries[i].nameIsString

\* readFileSync, yaml.load, the Array.isArray test and the sort: the sorted
\* array, or null where the second try block ends in its catch.
ReadAndSort(f) ==
    IF f.state # "ok" THEN Null
    ELSE IF f.content.kind # "games" THEN Null
    ELSE IF SortThrows(f.content.games) THEN Null
    ELSE Some(SortByName(f.content.games))

\* A loader that reads the file again unless it is older than recorded.
loadGamesDataOlderOnly(f, cache, modified) ==
    LET Loaded(sorted, cleared, recorded) ==
            [result |-> IF sorted.isNull THEN <<>> ELSE sorted.v,
             cache |-> IF sorted.isNull THEN cleared ELSE sorted,
             modified |-> recorded, read |-> TRUE]
    IN  IF f.state = "missing" THEN Loaded(ReadAndSort(f), cache, modified)
        ELSE IF ~cache.isNull /\ ~modified.isNull /\ modified.v # 0
                /\ f.mtime < modified.v
        THEN [result |-> cache.v, cache |-> cache, modified |-> modified,
              read |-> FALSE]
        ELSE Loaded(ReadAndSort(f), Null, Some(f.mtime))

\* loadGamesData() on the file f with the module state cache, modified.
\* statSync throws for a missing file; lastModifiedTime && ... is falsy for
\* null and for 0.
loadGamesData(f, cache, modified) ==
    LET Loaded(sorted, cleared, recorded) ==
            [result |-> IF sorted.isNull THEN <<>> ELSE sorted.v,
             cache |-> IF sorted.isNull THEN cleared ELSE sorted,
             modified |-> recorded, read |-> TRUE]
    IN  IF f.state = "missing" THEN Loaded(ReadAndSort(f), cache, modified)
        ELSE IF ~cache.isNull /\ ~modified.isNull /\ modified.v # 0
                /\ f.mtime <= modified.v
        THEN [result |-> cache.v, cache |-> cache, modified |-> modified,
              read |-> FALSE]
        ELSE Loaded(ReadAndSort(f), Null, Some(f.mtime))

\* The contents of games.yaml: no YAML, YAML without a games array, or a
\* games array whose entries have a string name or none.
NameChoices == {<<"a">>, <<"B">>}
EntryChoices ==
    {[nameIsString |-> TRUE, name |-> n] : n \in NameChoices}
        \cup {[nameIsString |-> FALSE, name |-> <<>>]}

RECURSIVE GamesArrays(_)
GamesArrays(n) ==
    IF n = 0 THEN {<<>>}
    ELSE GamesArrays(n - 1)
         \cup {Append(g, [id |-> n, nameIsString |-> e.nameIsString, name |-> e.name]) :
                   g \in {h \in GamesArrays(n - 1) : Len(h) = n - 1},
                   e \in EntryChoices}

FileContents ==
    {[kind |-> "unparsable", games |-> <<>>], [kind |-> "noGames", games |-> <<>>]}
        \cup {[kind |-> "games", games |-> g] : g \in GamesArrays(MaxGames)}

FileStates ==
    [state : {"missing", "denied", "ok"}, mtime : 0..MaxMtime, content : FileContents]

LoaderFrame == UNCHANGED <<timerVars, calcVars, listVars, ioVars, storeVars>>

\* A call of loadGamesData by a route.
LoadGamesData ==
    /\ \E r \in {loadGamesData(file, gamesCache, lastModifiedTime)} :
           /\ gamesCache' = r.cache
           /\ lastModifiedTime' = r.modified
           /\ loaderOut' = [op |-> "loadGamesData", result |-> r.result,
                            read |-> r.read]
    /\ UNCHANGED file
    /\ LoaderFrame

\* reloadGamesData(): both module variables set to null, then loadGamesData.
ReloadGamesData ==
    /\ \E r \in {loadGamesData(file, Null, Null)} :
           /\ gamesCache' = r.cache
           /\ lastModifiedTime' = r.modified
           /\ loaderOut' = [op |-> "reloadGamesData", result |-> r.result,
                            read |-> r.read]
    /\ UNCHANGED file
    /\ LoaderFrame

\* Someone replaces, touches, removes or locks games.yaml; the new
\* modification time is whatever the writer sets.
ChangeFile(f) ==
    /\ f # file
    /\ loaderOut.op # "changeFile"
    /\ file' = f
    /\ loaderOut' = [op |-> "changeFile", result |-> <<>>, read |-> FALSE]
    /\ UNCHANGED <<gamesCache, lastModifiedTime>>
    /\ LoaderFrame

\* The server process after start: nothing loaded yet.
InitLoader ==
    /\ now = StartNow
    /\ phase = "loading"
    /\ games = <<>>
    /\ activeTimers = <<>>
    /\ notifications = <<>>
    /\ notificationPermission = "default"
    /\ storage = [timers |-> [present |-> FALSE, value |-> <<>>],
                  notifications |-> [present |-> FALSE, value |-> <<>>]]
    /\ pending = {}
    /\ nextHandle = 0
    /\ nextId = 0
    /\ sessions = 1
    /\ sent = [id \in Ids |-> 0]
    /\ shown = [id \in Ids |-> 0]
    /\ cancelled = {}
    /\ lastOp = Op("loadFromStorage", 0, "")
    /\ NoCalc /\ NoLists /\ NoIo /\ NoStore
    /\ file \in FileStates
    /\ gamesCache = Null
    /\ lastModifiedTime = Null
    /\ loaderOut = [op |-> "none", result |-> <<>>, read |-> FALSE]

NextLoader ==
    \/ LoadGamesData
    \/ ReloadGamesData
    \/ \E f \in FileStates : ChangeFile(f)

SpecLoader == InitLoader /\ [][NextLoader]_vars


(***************************************************************************)
(* The checklist handlers called with any key and any item id.  DailiesApp *)
(* is a top-level const of the page's script: its methods can be called    *)
(* with arguments no card of the document holds.                           *)
(***************************************************************************)
CallCatalogs == {ListGame(<<GlobalServer>>)}
CallServers == {Asia, Global}

NextCalls ==
    \/ \E catalog \in CallCatalogs, read \in LaterReads : ListInit(catalog, read)
    \/ \E serverName \in CallServers, label \in ItemLabels :
           createChecklistItem(GameG, serverName, label)
    \/ \E serverName \in CallServers, itemId \in ItemIds :
           toggleCheckItem(GameG, serverName, itemId)
    \/ \E serverName \in CallServers, itemId \in ItemIds :
           deleteChecklistItem(GameG, serverName, itemId)
    \/ \E later \in ListInstants : ListTick(later)

SpecCalls == InitLists /\ [][NextCalls]_vars


(***************************************************************************)
(* The reset time in the viewer's zone (landing page).  A zone is its      *)
(* offset from UTC in minutes; the calendar is the proleptic Gregorian one *)
(* Intl.DateTimeFormat and Date use.  Instants are counted in ms from the  *)
(* UTC midnight that starts the date epoch, so that the dates tried stay   *)
(* within 32-bit integers.                                                 *)
(***************************************************************************)
IsLeapYear(y) == (y % 4 = 0 /\ y % 100 # 0) \/ y % 400 = 0

\* Days of the month m (0 = January) of the year y.
DaysInMonth(y, m) ==
    IF m = 1 THEN (IF IsLeapYear(y) THEN 29 ELSE 28)
    ELSE IF m \in {3, 5, 8, 10} THEN 30 ELSE 31

\* The date that lies d days after the first of month m of year y.
RECURSIVE CivilFrom(_, _, _)
CivilFrom(y, m, d) ==
    IF d < DaysInMonth(y, m) THEN [year |-> y, month |-> m, day |-> d + 1]
    ELSE IF m = 11 THEN CivilFrom(y + 1, 0, d - DaysInMonth(y, m))
    ELSE CivilFrom(y, m + 1, d - DaysInMonth(y, m))

\* year, month and day of the instant t in the zone: what
\* dateFormatter.formatToParts yields, and getFullYear / getMonth.
DatePartsIn(epoch, zone, t) ==
    CivilFrom(epoch.year, epoch.month,
              epoch.day - 1 + (t + zone * MsPerMinute) \div MsPerDay)

\* timeFormatter.format(t): hour 'numeric', minute '2-digit', hour12.
TimeStringIn(zone, t) ==
    LET c == Components((t + zone * MsPerMinute) % MsPerDay)
        hours12 == IF c.h % 12 = 0 THEN 12 ELSE c.h % 12
    IN  ToDecimal(hours12) \o <<":">> \o PadStart2(ToDecimal(c.m)) \o <<" ">>
            \o (IF c.h >= 12 THEN <<"P", "M">> ELSE <<"A", "M">>)

Today == <<" ", "(", "T", "o", "d", "a", "y", ")">>
Tomorrow == <<" ", "(", "T", "o", "m", "o", "r", "r", "o", "w", ")">>

\* dayLabel: the days of the month compared in the viewer's zone; the last
\* day of the month is that of nowUtc.getFullYear() / getMonth(), which are
\* the year and month in the browser's own zone.
DayLabel(epoch, userTimezone, browser, nowUtc, nextResetUtc) ==
    LET resetDay == DatePartsIn(epoch, userTimezone, nextResetUtc).day
        currentDay == DatePartsIn(epoch, userTimezone, nowUtc).day
        local == DatePartsIn(epoch, browser, nowUtc)
    IN  IF resetDay = currentDay THEN Today
        ELSE IF resetDay = currentDay + 1
                \/ (currentDay = DaysInMonth(local.year, local.month)
                      /\ resetDay = 1)
        THEN Tomorrow
        ELSE <<>>

\* App.getResetTimeInUserTimezone(server): selected is this.selectedTimezone
\* (Null for auto-detect), browser the zone Intl resolves, epoch the date
\* of instant 0; the clock is read
\* for nowUtc (at) and again inside getNextResetUtcForServer (read).
getResetTimeInUserTimezone(server, selected, browser, epoch, at, read) ==
    LET userTimezone == IF selected.isNull THEN browser ELSE selected.v
        nextResetUtc == getNextResetUtcForServer(server, read)
        dayLabel == DayLabel(epoch, userTimezone, browser, at, nextResetUtc)
    IN  [userTimezone |-> userTimezone,
         nextResetUtc |-> nextResetUtc,
         dayLabel |-> dayLabel,
         text |-> TimeStringIn(userTimezone, nextResetUtc) \o dayLabel]

\* selectedTimezone: null
AutoDetect == [isNull |-> TRUE, v |-> 0]

\* The dates of instant 0.  The calls are made on the third day from it: on
\* 15 and 31 January, 28 February, 30 April, 31 July and 31 December 1970,
\* and on 28 and 29 February 1972.
ViewerEpochs ==
    { [year |-> 1970, month |-> 0, day |-> 13],
      [year |-> 1970, month |-> 0, day |-> 29],
      [year |-> 1970, month |-> 1, day |-> 26],
      [year |-> 1970, month |-> 3, day |-> 28],
      [year |-> 1970, month |-> 6, day |-> 29],
      [year |-> 1970, month |-> 11, day |-> 29],
      [year |-> 1972, month |-> 1, day |-> 26],
      [year |-> 1972, month |-> 1, day |-> 27] }
ViewerTimes == {0, 6 * MsPerHour, 18 * MsPerHour, MsPerDay - 1}
ViewerNows == {2 * MsPerDay + t : t \in ViewerTimes}
\* UTC-10, UTC, UTC+5:30 and UTC+14.
ViewerZones == {-600, 0, 330, 840}
ViewerOffsets == {-480, 0, 540}
ViewerResets == {<<0, 0>>, <<5, 0>>, <<23, 59>>}

InitViewer ==
    /\ now = StartNow
    /\ phase = "loading"
    /\ games = <<>>
    /\ activeTimers = <<>>
    /\ notifications = <<>>
    /\ notificationPermission = "default"
    /\ storage = [timers |-> [present |-> FALSE, value |-> <<>>],
                  notifications |-> [present |-> FALSE, value |-> <<>>]]
    /\ pending = {}
    /\ nextHandle = 0
    /\ nextId = 0
    /\ sessions = 1
    /\ sent = [id \in Ids |-> 0]
    /\ shown = [id \in Ids |-> 0]
    /\ cancelled = {}
    /\ lastOp = Op("loadFromStorage", 0, "")
    /\ calcReset \in ViewerResets
    /\ \E offsetMin \in ViewerOffsets :
           calcServer = Server("s", offsetMin, TimeString(calcReset[1], calcReset[2]))
    /\ calcNow \in ViewerNows
    /\ \E selected \in {AutoDetect} \cup {Some(z) : z \in ViewerZones},
          browser \in ViewerZones, epoch \in ViewerEpochs :
           calcOut = [done |-> FALSE, selected |-> selected, browser |-> browser,
                      epoch |-> epoch]
    /\ NoLists /\ NoIo /\ NoStore /\ NoLoader

FormatReset ==
    /\ ~calcOut.done
    /\ \E read \in {calcNow, calcNow + 1} :
           calcOut' =
               [done |-> TRUE, selected |-> calcOut.selected,
                browser |-> calcOut.browser, epoch |-> calcOut.epoch,
                read |-> read,
                reset |-> getResetTimeInUserTimezone(calcServer, calcOut.selected,
                              calcOut.browser, calcOut.epoch, calcNow, read)]
    /\ UNCHANGED <<timerVars, calcServer, calcReset, calcNow, restVars>>

NextViewer == FormatReset

SpecViewer == InitViewer /\ [][NextViewer]_vars


(***************************************************************************)
(* Timers of any length.  setTimeout takes its delay as a WebIDL long: the *)
(* number is reduced modulo 2^32 to a signed 32-bit integer and a negative *)
(* result counts as 0.  Instants and durations beyond 32 bits are written  *)
(* as days and milliseconds of the day, [d, ms] with 0 <= ms < MsPerDay.   *)
(***************************************************************************)
Instant(d, ms) == [d |-> d + ms \div MsPerDay, ms |-> ms % MsPerDay]
Plus(x, y) == Instant(x.d + y.d, x.ms + y.ms)
Minus(x, y) == Instant(x.d - y.d, x.ms - y.ms)
Before(x, y) == x.d < y.d \/ (x.d = y.d /\ x.ms < y.ms)
Zero == Instant(0, 0)

\* 2^31 ms = 24 days 73,883,648 ms and 2^32 ms = 49 days 61,367,296 ms.
TwoPow31 == Instant(24, 73883648)
TwoPow32 == Instant(49, 61367296)

\* x modulo 2^32, for x >= 0.
RECURSIVE Mod32(_)
Mod32(x) == IF Before(x, TwoPow32) THEN x ELSE Mod32(Minus(x, TwoPow32))

\* The delay setTimeout(handler, delay) waits for.
TimeoutAfter(delay) ==
    LET Signed(r) == IF Before(r, TwoPow31) THEN r ELSE Minus(r, TwoPow32)
        Clamped(t) == IF Before(t, Zero) THEN Zero ELSE t
    IN  Clamped(Signed(Mod32(delay)))

\* hours * 60 * 60 * 1000 + minutes * 60 * 1000
TotalMs(hours, minutes) ==
    Plus(Instant(hours \div 24, (hours % 24) * MsPerHour),
         Instant(0, minutes * MsPerMinute))

\* scheduleTimerNotification(timer, delay) for the timer at index i.
ScheduleLong(st, i, delay) ==
    LET timer == st.timers[i]
        cleared == IF timer.timeoutHandle # 0
                   THEN clearTimeout(st.pending, timer.timeoutHandle)
                   ELSE st.pending
        handle == st.handle + 1
    IN  [st EXCEPT !.timers[i].timeoutHandle = handle,
                   !.pending = cleared \cup
                       {[handle |-> handle, id |-> timer.id,
                         due |-> Plus(now, TimeoutAfter(delay))]},
                   !.handle = handle]

LongLabels == {<<>>, <<"a">>}
\* 1 h; 596 h and 597 h, on either side of 2^31 ms; 1194 h, beyond 2^32 ms.
LongHours == {1, 596, 597, 1194}
LongMinutes == {0, 30}

LongFrame ==
    UNCHANGED <<phase, games, notifications, notificationPermission, cancelled,
                calcVars, restVars>>

SetLongTimer(label, hours, minutes) ==
    LET totalMs == TotalMs(hours, minutes)
        valid == Trim(label) # <<>> /\ Before(Zero, totalMs)
        pushed == Append(activeTimers,
                         NewTimer(nextId + 1, Trim(label), Plus(now, totalMs),
                                  "", "", "custom"))
        Armed(st) ==
            /\ activeTimers' = st.timers
            /\ pending' = st.pending
            /\ storage' = [storage EXCEPT !.timers = st.stored]
            /\ st.handle <= MaxHandle /\ nextHandle' = st.handle
    IN  /\ IF valid
           THEN /\ nextId < MaxIds
                /\ nextId' = nextId + 1
                /\ Armed(ScheduleLong([St EXCEPT !.timers = pushed,
                                                 !.stored = saveTimers(pushed)],
                                      Len(pushed), totalMs))
           ELSE UNCHANGED <<activeTimers, pending, storage, nextHandle, nextId>>
        /\ lastOp' = Op("setCustomTimer", IF valid THEN nextId + 1 ELSE 0, "")
        /\ UNCHANGED <<now, sessions, sent, shown>>
        /\ LongFrame

\* The callback of a timeout runs, not before its delay has passed.
LongCallback(p) ==
    LET Removed(st) ==
            /\ activeTimers' = st.timers
            /\ pending' = st.pending
            /\ storage' = [storage EXCEPT !.timers = st.stored]
    IN  /\ p \in pending
        /\ ~Before(now, p.due)
        /\ sent' = SentAfter(sent, p.id)
        /\ shown' = ShownAfter(shown, p.id)
        /\ Removed(removeTimerOf([St EXCEPT !.pending = pending \ {p}], p.id))
        /\ lastOp' = Op("timerCallback", p.id, "")
        /\ UNCHANGED <<now, nextHandle, nextId, sessions>>
        /\ LongFrame

\* checkExpiredTimers on a tick of the 1 Hz interval.
LongInterval ==
    LET expired == SelectSeq(activeTimers,
                       LAMBDA t : ~Before(now, t.endsAt) /\ t.timeoutHandle = 0)
        ids == {expired[i].id : i \in DOMAIN expired}
        Removed(st) ==
            /\ activeTimers' = st.timers
            /\ pending' = st.pending
            /\ storage' = [storage EXCEPT !.timers = st.stored]
    IN  /\ sent' = [id \in Ids |-> IF id \in ids THEN sent[id] + 1 ELSE sent[id]]
        /\ shown' = [id \in Ids |->
                        IF id \in ids /\ notificationPermission = "granted"
                        THEN shown[id] + 1 ELSE shown[id]]
        /\ Removed(RemoveAll(St, expired))
        /\ lastOp' = Op("updateInterval", 0, "")
        /\ UNCHANGED <<now, nextHandle, nextId, sessions>>
        /\ LongFrame

\* loadFromStorage's filter: timers with time remaining are armed again.
RECURSIVE RearmLong(_, _)
RearmLong(st, rest) ==
    LET Kept(with, remaining) ==
            RearmLong(ScheduleLong(with, Len(with.timers), remaining), Tail(rest))
    IN  IF rest = <<>> THEN st
        ELSE IF ~Before(Zero, Minus(Head(rest).endsAt, now))
        THEN RearmLong(st, Tail(rest))
        ELSE Kept([st EXCEPT !.timers = Append(st.timers, Head(rest))],
                  Minus(Head(rest).endsAt, now))

\* The page is loaded again.
LongLoad ==
    LET Loaded(st) ==
            /\ st.handle <= MaxHandle
            /\ activeTimers' = st.timers
            /\ pending' = st.pending
            /\ nextHandle' = st.handle
            /\ storage' = IF storage.timers.present
                          THEN [storage EXCEPT !.timers = saveTimers(st.timers)]
                          ELSE storage
    IN  /\ sessions < MaxSessions
        /\ sessions' = sessions + 1
        /\ Loaded(RearmLong([timers |-> <<>>, pending |-> {}, handle |-> 0,
                             stored |-> storage.timers], StoredTimers))
        /\ lastOp' = Op("loadFromStorage", 0, "")
        /\ UNCHANGED <<now, nextId, sent, shown>>
        /\ LongFrame

\* The instants at which something is due: a pending callback, or the end of
\* a timer in the list or in localStorage.
LongInstants ==
    {p.due : p \in pending}
        \cup {activeTimers[i].endsAt : i \in DOMAIN activeTimers}
        \cup {StoredTimers[i].endsAt : i \in DOMAIN StoredTimers}

\* Time passes, up to the next instant of interest or a later one.
LongTick(later) ==
    /\ Before(now, later)
    /\ now' = later
    /\ lastOp' = Op("other", 0, "")
    /\ UNCHANGED <<activeTimers, pending, storage, nextHandle, nextId, sessions,
                   sent, shown>>
    /\ LongFrame

\* An open page with notifications granted and nothing stored.
InitLong ==
    /\ now = Instant(1, 18 * MsPerHour)
    /\ phase = "running"
    /\ games = Catalog
    /\ activeTimers = <<>>
    /\ notifications = <<>>
    /\ notificationPermission = "granted"
    /\ storage = [timers |-> [present |-> FALSE, value |-> <<>>],
                  notifications |-> [present |-> FALSE, value |-> <<>>]]
    /\ pending = {}
    /\ nextHandle = 0
    /\ nextId = 0
    /\ sessions = 1
    /\ sent = [id \in Ids |-> 0]
    /\ shown = [id \in Ids |-> 0]
    /\ cancelled = {}
    /\ lastOp = Op("loadFromStorage", 0, "")
    /\ NoCalc /\ NoLists /\ NoIo /\ NoStore /\ NoLoader

NextLong ==
    \/ \E label \in LongLabels, hours \in LongHours, minutes \in LongMinutes :
           SetLongTimer(label, hours, minutes)
    \/ \E p \in pending : LongCallback(p)
    \/ LongInterval
    \/ LongLoad
    \/ \E later \in LongInstants : LongTick(later)

SpecLong == InitLong /\ [][NextLong]_vars

(***************************************************************************)
(* C1.  For every valid server and every instant, nextResetUtc - now lies   *)
(* in (0, 24h] and nextResetUtc - 24h <= lastResetUtc <= now, for the       *)
(* dailies calculator and for the landing-page calculator.                 *)
(***************************************************************************)
C1_ResetWindow ==
    calcOut.done =>
        /\ ~calcOut.next.nan /\ ~calcOut.last.nan
        /\ calcOut.next.v - calcNow > 0
        /\ calcOut.next.v - calcNow <= MsPerDay
        /\ calcOut.app - calcNow > 0
        /\ calcOut.app - calcNow <= MsPerDay
        /\ calcOut.next.v - MsPerDay <= calcOut.last.v
        /\ calcOut.app - MsPerDay <= calcOut.last.v
        /\ calcOut.last.v <= calcNow

\* A call exactly at a reset instant of a server with a fractional offset.
C1_Witness ==
    /\ calcOut.done
    /\ calcServer.offsetMin = 330
    /\ calcOut.next.v - calcNow = MsPerDay
    /\ calcOut.last.v = calcNow

(***************************************************************************)
(* C2.  nextResetUtc is the smallest instant strictly after now whose       *)
(* server-local time of day is dailyReset; exactly at a reset instant it   *)
(* is now + 24h.                                                           *)
(***************************************************************************)
\* Server-local time of day of the instant t, in ms.
LocalTimeOfDay(t) == (t + calcServer.offsetMin * MsPerMinute) % MsPerDay
ResetTimeOfDay == calcReset[1] * MsPerHour + calcReset[2] * MsPerMinute
\* Every whole-minute instant in (now, now + 24h]: reset instants of the
\* servers tried fall on whole minutes.
MinuteInstantsAfter(t) ==
    {m * MsPerMinute : m \in (t \div MsPerMinute)..(t \div MsPerMinute + 24 * 60)}

C2_NextIsSmallest ==
    calcOut.done =>
        LET next == calcOut.next.v
        IN  /\ ~calcOut.next.nan
            /\ calcOut.app = next
            /\ next > calcNow
            /\ LocalTimeOfDay(next) = ResetTimeOfDay
            /\ \A t \in MinuteInstantsAfter(calcNow) :
                   (t > calcNow /\ LocalTimeOfDay(t) = ResetTimeOfDay) => next <= t
            /\ (LocalTimeOfDay(calcNow) = ResetTimeOfDay => next = calcNow + MsPerDay)
            /\ (calcServer.offsetMin = 9 * 60 /\ calcReset = <<5, 0>>
                /\ calcNow \in {CalcStart, CalcStart + 19 * MsPerHour}
                    => next = CalcStart + 20 * MsPerHour)

\* offset 0, reset 00:00, now exactly midnight UTC: the result is now + 24h.
C2_Witness ==
    /\ calcOut.done
    /\ calcServer.offsetMin = 0
    /\ calcReset = <<0, 0>>
    /\ calcNow = CalcStart
    /\ calcOut.next.v = calcNow + MsPerDay

(***************************************************************************)
(* Notions shared by the scheduler's properties.                           *)
(***************************************************************************)
Created(id) == id <= nextId
\* A timer list as the user sees it: ids, labels and end instants, in order.
TimerView(timers) ==
    [i \in DOMAIN timers |->
        [id |-> timers[i].id, label |-> timers[i].label, endsAt |-> timers[i].endsAt]]
\* Some handler sent the notification of timer id in this step.
Fires(id) == sent'[id] = sent[id] + 1
AtMostOnce == \A id \in Ids : sent[id] <= 1 /\ shown[id] <= sent[id]
FiredIsRemoved == \A id \in Ids : Fires(id) => id \notin ActiveIds'

(***************************************************************************)
(* C3 as stated.  Each timer is notified at most once, the handler that     *)
(* fires it removes it from the active list, and a timer leaves the active *)
(* list only by firing or by being cancelled.                              *)
(***************************************************************************)
C3_OnlyFiredOrCancelled ==
    [][ /\ AtMostOnce'
        /\ FiredIsRemoved
        /\ \A id \in ActiveIds \ ActiveIds' :
               \/ Fires(id)
               \/ lastOp' = Op("removeTimer", id, "scheduled") ]_vars

(***************************************************************************)
(* C3 amended.  Each timer is notified at most once, the handler that fires *)
(* it removes it from the active list, and a timer leaves the active list  *)
(* only by firing, by being cancelled, or by being dropped, without a      *)
(* notification, while the page loads.                                     *)
(***************************************************************************)
C3_FiresAtMostOnce ==
    [][ /\ AtMostOnce'
        /\ FiredIsRemoved
        /\ \A id \in ActiveIds \ ActiveIds' :
               \/ Fires(id)
               \/ lastOp' = Op("removeTimer", id, "scheduled")
               \/ lastOp'.op = "loadFromStorage" /\ sent'[id] = sent[id] ]_vars

\* One timer has fired and is gone; another one was dropped by a page load
\* without firing or being cancelled.
C3_Witness ==
    \E fired \in Ids, dropped \in Ids :
        /\ Created(fired) /\ sent[fired] = 1 /\ fired \notin ActiveIds
        /\ Created(dropped) /\ sent[dropped] = 0 /\ dropped \notin ActiveIds
        /\ dropped \notin cancelled

(***************************************************************************)
(* C4.  After removeTimer(id) the timer is in neither the active nor the    *)
(* persisted list and has no pending callback, it is never notified        *)
(* afterwards, and removeTimer of an id that is not in the list changes    *)
(* neither list nor the pending callbacks.                                 *)
(***************************************************************************)
C4_CancelIsFinal ==
    [][ /\ lastOp'.op = "removeTimer" =>
               /\ lastOp'.id \notin ActiveIds'
               /\ lastOp'.id \notin StoredIds'
               /\ PendingIn(pending', lastOp'.id) = {}
               /\ lastOp'.flag = "absent" =>
                      /\ activeTimers' = activeTimers
                      /\ pending' = pending
                      /\ TimerView(StoredTimers') = TimerView(StoredTimers)
        /\ \A id \in cancelled :
               /\ sent'[id] = sent[id]
               /\ id \notin ActiveIds' /\ id \notin StoredIds'
               /\ PendingIn(pending', id) = {} ]_vars

\* removeTimer ran a second time for a timer that was cancelled before it
\* could fire, and its end instant has passed since.
C4_Witness ==
    \E id \in cancelled :
        /\ lastOp = Op("removeTimer", id, "absent")
        /\ sent[id] = 0
        /\ sessions = 1
        /\ now > StartNow + 30 * MsPerMinute

(***************************************************************************)
(* C5.  While the page stays open, a created timer that is not cancelled    *)
(* eventually fires and is then in neither the active nor the persisted    *)
(* list, with or without notification permission.                          *)
(***************************************************************************)
C5_EventuallyFires ==
    \A id \in Ids :
        (id \in ActiveIds) ~>
            (/\ id \notin ActiveIds /\ id \notin StoredIds
             /\ (id \in cancelled \/ sent[id] = 1))

\* A timer fired without permission being granted and is gone.
C5_Witness ==
    \E id \in Ids :
        /\ lastOp = Op("timerCallback", id, "notGranted")
        /\ sent[id] = 1 /\ shown[id] = 0
        /\ id \notin ActiveIds /\ id \notin StoredIds /\ id \notin cancelled

(***************************************************************************)
(* C6.  After a tick of the 1 Hz interval no timer is left in the active    *)
(* list that has expired and has no pending callback: the sweep fires and  *)
(* removes it.                                                             *)
(***************************************************************************)
C6_SweepFiresLostTimers ==
    [][ lastOp'.op = "updateInterval" =>
            \A i \in DOMAIN activeTimers' :
                ~(/\ activeTimers'[i].endsAt <= now'
                  /\ PendingIn(pending', activeTimers'[i].id) = {}) ]_vars

(***************************************************************************)
(* C7.  loadFromStorage drops every persisted timer with endsAt <= now      *)
(* without arming a callback, keeps every other one, in order, with one    *)
(* freshly armed callback due at endsAt, and rewrites the persisted list   *)
(* to the kept timers.                                                     *)
(***************************************************************************)
C7_LoadRearmsKeptTimers ==
    [][ lastOp'.op = "loadFromStorage" =>
            /\ TimerView(activeTimers') =
                   TimerView(SelectSeq(StoredTimers, LAMBDA t : t.endsAt > now))
            /\ \A i \in DOMAIN StoredTimers :
                   StoredTimers[i].endsAt <= now =>
                       PendingIn(pending', StoredTimers[i].id) = {}
            /\ \A i \in DOMAIN activeTimers' :
                   \E p \in pending' :
                       /\ PendingIn(pending', activeTimers'[i].id) = {p}
                       /\ p.handle = activeTimers'[i].timeoutHandle
                       /\ p.due = activeTimers'[i].endsAt
            /\ storage.timers.present => storage'.timers.value = activeTimers' ]_vars

(***************************************************************************)
(* C8.  Between handlers every timer of the active list has exactly one     *)
(* pending callback, and every pending callback belongs to a timer of the  *)
(* active list.                                                            *)
(***************************************************************************)
C8_OneCallbackPerTimer ==
    /\ \A i \in DOMAIN activeTimers :
           Cardinality(PendingFor(activeTimers[i].id)) = 1
    /\ \A p \in pending : p.id \in ActiveIds

(***************************************************************************)
(* C9.  setCustomTimer with a blank label or a total duration <= 0 changes  *)
(* neither the active list, nor the persisted list, nor the pending        *)
(* callbacks.                                                              *)
(***************************************************************************)
C9_InvalidTimerChangesNothing ==
    [][ (lastOp'.op = "setCustomTimer" /\ lastOp'.flag \in {"blankLabel", "noDuration"})
            => UNCHANGED <<activeTimers, storage, pending, notifications, nextId>> ]_vars

\* A rejected call (non-blank label, no duration) while a timer is scheduled.
C9_Witness ==
    /\ lastOp = Op("setCustomTimer", 0, "noDuration")
    /\ activeTimers # <<>>
    /\ pending # {}

(***************************************************************************)
(* C10.  scheduleResetNotification with nextResetUtc - minutesBefore*60000  *)
(* <= now adds no timer, arms no callback and leaves the stored            *)
(* preference as it was.                                                   *)
(***************************************************************************)
C10_TooSoonChangesNothing ==
    [][ (lastOp'.op = "scheduleResetNotification" /\ lastOp'.flag = "tooSoon")
            => UNCHANGED <<activeTimers, storage, pending, notifications, nextId>> ]_vars

\* A too-soon call for a server whose preference had been set before.
C10_Witness ==
    /\ lastOp = Op("scheduleResetNotification", 0, "tooSoon")
    /\ <<"test-game-1", "Asia">> \in DOMAIN notifications
    /\ storage.notifications.present

(***************************************************************************)
(* Notions shared by the checklist properties.                             *)
(***************************************************************************)
\* The catalog server a checklist was created for, <<>> when it is gone.
ByServer(gs, e) ==
    LET found == SelectSeq(gs, LAMBDA g : g.id = e.by[1])
    IN  IF found = <<>> THEN <<>>
        ELSE SelectSeq(found[1].servers, LAMBDA s : s.name = e.by[2])
\* The reset of the entry's server that is due at the instant t (0: none).
DueReset(gs, e, t) ==
    LET server == ByServer(gs, e)
    IN  IF server = <<>> \/ ~server[1].resetIsString THEN 0
        ELSE LET last == getLastResetUtc(server[1], t)
             IN  IF ~last.nan /\ last.v > e.lastResetCheck THEN last.v ELSE 0
SameTasks(a, b) ==
    /\ Len(a) = Len(b)
    /\ \A k \in DOMAIN a : a[k].id = b[k].id /\ a[k].label = b[k].label
SameLists(a, b) ==
    /\ Len(a) = Len(b)
    /\ \A i \in DOMAIN a : a[i].key = b[i].key /\ SameTasks(a[i].items, b[i].items)

(***************************************************************************)
(* C11.  A sweep at now leaves every checklist whose server is in the       *)
(* catalog and whose lastResetUtc(server, now) > lastResetCheck with all   *)
(* items unchecked and lastResetCheck = now, and no sweep adds, removes,   *)
(* reorders or relabels an item of any checklist.                          *)
(***************************************************************************)
C11_SweepUnchecksDueLists ==
    [][ listOp'.op = "checkAutoReset" =>
            /\ SameLists(checklists', checklists)
            /\ \A i \in DOMAIN checklists :
                   DueReset(games, checklists[i], now) # 0 =>
                       /\ \A k \in DOMAIN checklists'[i].items :
                              ~checklists'[i].items[k].checked
                       /\ checklists'[i].lastResetCheck = now ]_vars

(***************************************************************************)
(* C12.  Once a sweep has detected a reset for a checklist, a further       *)
(* sweep that runs before the server's next reset instant changes neither  *)
(* lastResetCheck nor any checked flag of that checklist.                  *)
(***************************************************************************)
C12_SweepIdempotent ==
    [][ listOp'.op = "checkAutoReset" =>
            \A i \in DOMAIN checklists :
                (checklists[i].seen # 0 /\ now' < checklists[i].seen + MsPerDay) =>
                    /\ checklists'[i].lastResetCheck = checklists[i].lastResetCheck
                    /\ \A k \in DOMAIN checklists[i].items :
                           checklists'[i].items[k].checked
                               = checklists[i].items[k].checked ]_vars

(***************************************************************************)
(* C13.  lastResetCheck of a checklist never decreases, in memory and in    *)
(* localStorage, whatever handler runs.                                    *)
(***************************************************************************)
NeverOlder(before, after) ==
    \A i \in DOMAIN before, j \in DOMAIN after :
        before[i].key = after[j].key =>
            after[j].lastResetCheck >= before[i].lastResetCheck

C13_LastResetCheckMovesForward ==
    [][ /\ NeverOlder(checklists, checklists')
        /\ NeverOlder(storedChecklists.value, storedChecklists'.value)
        /\ NeverOlder(storedChecklists.value, checklists')
        /\ NeverOlder(checklists, storedChecklists'.value) ]_vars

\* A sweep moved a stored lastResetCheck forward, for a checklist that holds
\* an item.
C13_Witness ==
    /\ listOp.op = "checkAutoReset"
    /\ \E i \in DOMAIN checklists :
           /\ checklists[i].lastResetCheck = listOp.at
           /\ checklists[i].lastResetCheck > ListStart
           /\ checklists[i].items # <<>>
           /\ storedChecklists.value = checklists

(***************************************************************************)
(* C14.  A sweep does not throw on a checklist whose game or server is not  *)
(* in the catalog, leaves that checklist as it is, and treats every other  *)
(* checklist in the same tick as it would if the stale ones were absent.   *)
(***************************************************************************)
Stale(e) == ByServer(games, e) = <<>>
Live(e) == ~Stale(e)

C14_SweepSkipsStaleKeys ==
    [][ listOp'.op = "checkAutoReset" =>
            /\ ~listOp'.threw
            /\ Len(checklists') = Len(checklists)
            /\ \A i \in DOMAIN checklists :
                   Stale(checklists[i]) => checklists'[i] = checklists[i]
            /\ SelectSeq(checklists', Live)
                   = SweepFrom(games, SelectSeq(checklists, Live), 1, now, now').lists
            /\ storedChecklists' = saveChecklists(checklists') ]_vars

\* The Asia checklist was auto-reset once and has a checked item again, Asia
\* is gone from the catalog, and a sweep that passed over it has reset the
\* checklist that follows it.
C14_Witness ==
    /\ listOp.op = "checkAutoReset"
    /\ \E i \in DOMAIN checklists, j \in DOMAIN checklists :
           /\ i < j
           /\ Stale(checklists[i]) /\ checklists[i].seen # 0
           /\ \E k \in DOMAIN checklists[i].items : checklists[i].items[k].checked
           /\ Live(checklists[j]) /\ checklists[j].lastResetCheck = listOp.at
           /\ checklists[j].seen # 0


(***************************************************************************)
(* C15.  Malformed server entries.                                         *)
(***************************************************************************)
WellFormed(c) ==
    /\ ~c.nan
    /\ c.h >= 0
    /\ c.m \in 0..59
    /\ c.s \in 0..59

LandingFallsBack ==
    /\ calcOut.app = calcNow + MsPerDay
    /\ WellFormed(calcOut.appCountdown)
    /\ (~calcServer.resetIsString \/ calcServer.dailyReset \in MalformedResets
            => calcOut.format = InvalidTime)
    /\ (~calcServer.offsetIsNumber => calcOut.clock = InvalidTime)

DailiesFallsBack ==
    /\ ~calcOut.next.threw /\ ~calcOut.next.nan
    /\ calcOut.next.v = calcNow + MsPerDay
    /\ ~calcOut.last.threw /\ ~calcOut.last.nan
    /\ ~calcOut.countdown.threw
    /\ WellFormed(calcOut.countdown)

\* C15: for a server whose dailyReset is malformed or whose offset is no
\* number, no calculator throws or yields NaN: the next reset is now + 24h,
\* the countdown is a well-formed non-negative H/M/S value and the formatted
\* time is "Invalid Time", on the landing page and on the dailies page alike.
C15_MalformedServerFallsBack ==
    calcOut.done => LandingFallsBack /\ DailiesFallsBack



(***************************************************************************)
(* C16.  A malformed server entry next to sound ones.                      *)
(***************************************************************************)
Malformed(server) ==
    \/ ~server.resetIsString
    \/ ~server.offsetIsNumber
    \/ server.dailyReset \in MalformedResets

\* The catalog gs with its malformed server entries taken out.
SoundPart(gs) ==
    [g \in DOMAIN gs |->
        [gs[g] EXCEPT !.servers = SelectSeq(@, LAMBDA s : ~Malformed(s))]]

Entries(lists) == {lists[i] : i \in DOMAIN lists}

\* The page load or tick this step is, run on the catalog without its
\* malformed entries.
WithoutMalformed ==
    IF sessions' # sessions
    THEN LET loaded == IF storedChecklists.present
                       THEN storedChecklists.value ELSE <<>>
             r == renderGameChecklists(loaded, SoundPart(games'), now)
             s == checkAutoReset(SoundPart(games'), r.lists, storedChecklists,
                                 now, now')
         IN  [rendered |-> r.rendered, lists |-> s.lists, stored |-> s.stored]
    ELSE LET s == checkAutoReset(SoundPart(games), checklists, storedChecklists,
                                 now, now')
         IN  [rendered |-> rendered, lists |-> s.lists, stored |-> s.stored]

\* C16: in a page load (render pass and first sweep) or a 1 Hz tick over a
\* catalog with a malformed server entry, the card, the auto-reset and the
\* stored checklist of every other server come out as they would with the
\* malformed entry absent.
C16_MalformedEntryIsolated ==
    [][ (sessions' # sessions \/ listOp'.op = "checkAutoReset")
            => /\ WithoutMalformed.rendered \subseteq rendered'
               /\ Entries(WithoutMalformed.lists) \subseteq Entries(checklists')
               /\ storedChecklists'.present = WithoutMalformed.stored.present
               /\ Entries(WithoutMalformed.stored.value)
                      \subseteq Entries(storedChecklists'.value) ]_vars


(***************************************************************************)
(* C17.  One corrupt storage key.                                          *)
(***************************************************************************)
OneCorrupt(st) == Cardinality({p \in Partitions : st[p].state = "corrupt"}) = 1

\* C17: after a load that found exactly one key corrupt, that partition is
\* at its empty default, every other partition that held data is in memory
\* with that data, and its stored data has not been replaced by anything
\* written from an emptied memory.
C17_CorruptKeyIsolated ==
    mem.loaded /\ OneCorrupt(mem.origin)
        => \A p \in Partitions :
               IF mem.origin[p].state = "corrupt"
               THEN mem.part[p] \in {"empty", "fresh"}
               ELSE mem.origin[p] = Valid("data")
                        => /\ mem.part[p] = "data"
                           /\ store[p] = Valid("data")


(***************************************************************************)
(* C18.  The countdown's components.                                       *)
(***************************************************************************)
AllZeros(text) == \A i \in DOMAIN text : text[i] \in Digits => text[i] = "0"

HourMinuteSecond(c) ==
    IF c.diff <= 0
    THEN c.h = 0 /\ c.m = 0 /\ c.s = 0 /\ AllZeros(c.text)
    ELSE /\ ~c.nan
         /\ c.h = c.diff \div MsPerHour
         /\ c.m = (c.diff % MsPerHour) \div MsPerMinute
         /\ c.s = (c.diff % MsPerMinute) \div MsPerSecond
         /\ c.h >= 0 /\ c.m \in 0..59 /\ c.s \in 0..59
         /\ c.h * 3600 + c.m * 60 + c.s = c.diff \div MsPerSecond
         /\ c.h <= 24
         /\ c.text = ToDecimal(c.h) \o <<"H", " ">> \o ToDecimal(c.m)
                         \o <<"M", " ">> \o ToDecimal(c.s) \o <<"S">>
         /\ (c.diff = MsPerHour
                => c.text = <<"1", "H", " ", "0", "M", " ", "0", "S">>)

\* C18: for a valid server the countdown shows H = floor(diff / 1h),
\* M = floor((diff mod 1h) / 1min) in 0..59 and S = floor((diff mod 1min) / 1s)
\* in 0..59 of diff = nextResetUtc - now, so H*3600 + M*60 + S is
\* floor(diff / 1000) and H <= 24; a diff <= 0 is shown as zeros and a reset
\* one hour away as "1H 0M 0S"; on the landing page and on the dailies page.
C18_CountdownComponents ==
    calcOut.done => HourMinuteSecond(calcOut.countdown)
                        /\ HourMinuteSecond(calcOut.appCountdown)

C18_Witness ==
    /\ calcOut.done
    /\ calcOut.countdown.diff = MsPerHour
    /\ calcOut.appCountdown.text = <<"1", "H", " ", "0", "M", " ", "0", "S">>


(***************************************************************************)
(* C19.  Validation of the submission routes.                              *)
(***************************************************************************)
RequiredFields ==
    IF request.route = "/api/game-request"
    THEN {request.body.gameName, request.body.gameRegion, request.body.resetTime}
    ELSE {request.body.gameName, request.body.gameId, request.body.issueDescription}

Incomplete == \E field \in RequiredFields : ~field.present \/ field.text = <<>>

\* C19: a POST to /api/game-request or /api/report-issue with a required
\* field missing or empty is answered 400 "Bad Request" and nothing is sent to
\* the Discord webhook, whether DISCORD_WEBHOOK_URL is set or not.
C19_IncompleteIsBadRequest ==
    response.status # 0 /\ Incomplete
        => /\ response.status = 400
           /\ response.error = "Bad Request"
           /\ response.sent = 0

C19_Witness ==
    /\ request.route = "/api/game-request"
    /\ ~request.webhookUrl
    /\ request.body.gameName = Text(<<"x">>)
    /\ request.body.gameRegion = Text(<<"x">>)
    /\ request.body.resetTime = Text(<<>>)
    /\ response.status = 400


(***************************************************************************)
(* C20.  Path traversal through /assets.                                   *)
(***************************************************************************)
\* C20: a GET /assets/* whose path resolves, with its '..' segments applied,
\* to a location that is not inside PUBLIC_DIR is answered 403 or 404 and
\* returns no file content, also when the location is in a sibling directory
\* whose name starts with PUBLIC_DIR's name.
C20_NothingServedFromOutside ==
    response.status # 0 /\ ~Inside(Join(PUBLIC_DIR, request.path), PUBLIC_DIR)
        => response.status \in {403, 404} /\ response.content = <<>>


(***************************************************************************)
(* C21.  What loadGamesData returns.                                       *)
(***************************************************************************)
Called == loaderOut.op \in {"loadGamesData", "reloadGamesData"}

\* previous.name.localeCompare(next.name) <= 0 for every adjacent pair
SortedByName(entries) ==
    \A i \in 1..(Len(entries) - 1) :
        /\ entries[i].nameIsString /\ entries[i + 1].nameIsString
        /\ localeCompare(entries[i].name, entries[i + 1].name) <= 0

SameEntries(a, b) ==
    /\ Len(a) = Len(b)
    /\ {a[i] : i \in DOMAIN a} = {b[i] : i \in DOMAIN b}

HoldsGamesArray == file.state = "ok" /\ file.content.kind = "games"

ReflectsFile(result) ==
    IF HoldsGamesArray /\ ~SortThrows(file.content.games)
    THEN SameEntries(result, file.content.games) /\ SortedByName(result)
    ELSE result = <<>>

Reread == loaderOut'.read /\ ReflectsFile(loaderOut'.result)

FromCache ==
    /\ ~loaderOut'.read
    /\ ~gamesCache.isNull
    /\ loaderOut'.result = gamesCache.v
    /\ gamesCache' = gamesCache

NotHeld(serverName, itemId) ==
    \A i \in DOMAIN checklists :
        checklists[i].key = Key(GameG, serverName)
            => \A k \in DOMAIN checklists[i].items :
                   checklists[i].items[k].id # itemId

\* C25: toggleCheckItem and deleteChecklistItem called with an item id that
\* the addressed checklist does not hold leave the checklists map as it was
\* (keys, items, checked flags, lastResetCheck), also when the key has no
\* checklist yet.
C25_AbsentIdIsNoOp ==
    [][ \A serverName \in CallServers, itemId \in ItemIds :
            /\ NotHeld(serverName, itemId)
            /\ \/ toggleCheckItem(GameG, serverName, itemId)
               \/ deleteChecklistItem(GameG, serverName, itemId)
            => checklists' = checklists ]_vars

\* C25 as the code has it: the items, flags and lastResetCheck of every
\* existing checklist stay as they were; deleteChecklistItem adds no key;
\* toggleCheckItem on a key without a checklist creates an empty one whose
\* lastResetCheck is the instant of the call.
C25_AbsentIdKeepsItems ==
    [][ \A serverName \in CallServers, itemId \in ItemIds :
            /\ NotHeld(serverName, itemId)
                /\ deleteChecklistItem(GameG, serverName, itemId)
                => checklists' = checklists
            /\ NotHeld(serverName, itemId)
                /\ toggleCheckItem(GameG, serverName, itemId)
                => IF HasKey(checklists, Key(GameG, serverName))
                   THEN checklists' = checklists
                   ELSE /\ Len(checklists') = Len(checklists) + 1
                        /\ SubSeq(checklists', 1, Len(checklists)) = checklists
                        /\ checklists'[Len(checklists')].key = Key(GameG, serverName)
                        /\ checklists'[Len(checklists')].items = <<>>
                        /\ checklists'[Len(checklists')].lastResetCheck = now
        ]_vars

\* A toggle found no item, in a checklist that holds one.
C25_Witness ==
    /\ listOp.op = "toggleCheckItem"
    /\ \A i \in DOMAIN checklists : \A k \in DOMAIN checklists[i].items :
           ~checklists[i].items[k].checked
    /\ \E i \in DOMAIN checklists : Len(checklists[i].items) = 1
    /\ itemIds = 1
    /\ sessions = 0


(***************************************************************************)
(* C22.  What a detecting sweep stores.                                    *)
(***************************************************************************)
\* The sweep of this step detected a reset for entry i.
Detected(i) ==
    \/ checklists'[i].seen # checklists[i].seen
    \/ checklists'[i].lastResetCheck # checklists[i].lastResetCheck

\* C22: a sweep that detected the reset instant r for a checklist leaves that
\* checklist with lastResetCheck >= r, also when the clock advances between
\* the sweep's own clock read and the read inside getLastResetUtc.
C22_StoredCheckCoversReset ==
    [][ listOp'.op = "checkAutoReset" =>
            \A i \in DOMAIN checklists :
                Detected(i) =>
                    checklists'[i].lastResetCheck >= checklists'[i].seen ]_vars


(***************************************************************************)
(* C23.  Which candidate getLastResetUtc returns.                          *)
(***************************************************************************)
\* The instant of the call in server-local time, and dailyReset on that
\* server-local calendar date.
NowServerLocal == calcNow + calcServer.offsetMin * MsPerMinute
Candidate == (NowServerLocal \div MsPerDay) * MsPerDay + ResetTimeOfDay
ToUtc(t) == t - calcServer.offsetMin * MsPerMinute

\* C23: getLastResetUtc returns today's candidate (converted back to UTC)
\* when nowServerLocal < candidate, and otherwise a candidate of an earlier
\* day.
C23_TodayWhenBefore ==
    calcOut.done =>
        IF NowServerLocal < Candidate
        THEN calcOut.last = Num(ToUtc(Candidate))
        ELSE calcOut.last \in {Num(ToUtc(Candidate - MsPerDay)),
                               Num(ToUtc(Candidate - 2 * MsPerDay))}

\* C23 as the code has it: before today's candidate the result is the
\* candidate of the day before, from the candidate on it is today's.
C23_YesterdayWhenBefore ==
    calcOut.done =>
        IF NowServerLocal < Candidate
        THEN calcOut.last = Num(ToUtc(Candidate - MsPerDay))
        ELSE calcOut.last = Num(ToUtc(Candidate))

\* A call one millisecond before today's reset of a +5:30 server: the result
\* is yesterday's reset.
C23_Witness ==
    /\ calcOut.done
    /\ calcServer.offsetMin = 330
    /\ calcReset = <<12, 30>>
    /\ NowServerLocal = Candidate - 1
    /\ calcOut.last = Num(calcNow + 1 - MsPerDay)


(***************************************************************************)
(* C27.  The landing page and the dailies page agree.                      *)
(***************************************************************************)
SameComponents(c, d) == c.h = d.h /\ c.m = d.m /\ c.s = d.s

ViewerDay(t) == (t + calcOut.reset.userTimezone * MsPerMinute) \div MsPerDay

\* C24: the day label is "Today" exactly when the next reset falls on the
\* viewer-zone calendar day of now, "Tomorrow" exactly when it falls on the
\* following one, for every viewer zone, selected or detected, and every
\* date; the label is never empty.
C24_DayLabel ==
    calcOut.done =>
        /\ calcOut.reset.dayLabel = Today
               <=> ViewerDay(calcOut.reset.nextResetUtc) = ViewerDay(calcNow)
        /\ calcOut.reset.dayLabel = Tomorrow
               <=> ViewerDay(calcOut.reset.nextResetUtc) = ViewerDay(calcNow) + 1
        /\ calcOut.reset.dayLabel # <<>>


(***************************************************************************)
(* C26.  The stored notification preference.                               *)
(***************************************************************************)
StoredPreferences(st) ==
    IF st.notifications.present THEN st.notifications.value ELSE <<>>

\* This step is scheduleResetNotification(gameId, serverName, minutesBefore)
\* and armed a timer.
Succeeded(gameId, serverName, minutesBefore) ==
    /\ scheduleResetNotification(gameId, serverName, minutesBefore)
    /\ lastOp'.id # 0

\* C26: the preference stored for a key is the minutesBefore of the most
\* recent successful scheduleResetNotification for that key: the successful
\* call writes it, and no other step (a timer firing by callback or sweep, a
\* cancel, setCustomTimer, a failed scheduleResetNotification, a reload)
\* changes or deletes a stored preference.
C26_PreferenceFollowsLastSuccess ==
    [][ /\ \A gameId \in GameIdChoices, serverName \in ServerNameChoices,
              minutesBefore \in MinutesBeforeChoices :
               Succeeded(gameId, serverName, minutesBefore) =>
                   LET key == <<gameId, serverName>>
                       before == StoredPreferences(storage)
                       after == StoredPreferences(storage')
                   IN  /\ DOMAIN after = DOMAIN before \cup {key}
                       /\ after[key].beforeReset = minutesBefore
                       /\ \A k \in DOMAIN before \ {key} : after[k] = before[k]
        /\ ~(lastOp'.op = "scheduleResetNotification" /\ lastOp'.id # 0)
               => storage'.notifications = storage.notifications
        /\ notifications' = StoredPreferences(storage') ]_vars

\* A scheduleResetNotification that was too soon, after one that succeeded
\* with 60 minutes and whose timer has fired since.
C26_Witness ==
    /\ lastOp = Op("scheduleResetNotification", 0, "tooSoon")
    /\ <<"test-game-1", "Asia">> \in DOMAIN StoredPreferences(storage)
    /\ StoredPreferences(storage)[<<"test-game-1", "Asia">>].beforeReset = 60
    /\ sent[1] = 1
    /\ activeTimers = <<>>


(***************************************************************************)
(* C28.  No notification before endsAt.                                    *)
(***************************************************************************)
\* C28: no timer emits its notification before its endsAt, neither by its
\* timeout callback nor by the sweep, also when it was armed again after a
\* reload.
C28_NeverBeforeEndsAt ==
    [][ \A id \in Ids :
            sent'[id] > sent[id] =>
                \E i \in DOMAIN activeTimers :
                    /\ activeTimers[i].id = id
                    /\ ~Before(now, activeTimers[i].endsAt) ]_vars


(***************************************************************************)
(* C29.  The persisted timer list mirrors the active list.                 *)
(***************************************************************************)
\* id, label and endsAt of every timer of the list, in order.
Listed(timers) ==
    [i \in DOMAIN timers |->
        [id |-> timers[i].id, label |-> timers[i].label,
         endsAt |-> timers[i].endsAt]]

\* C29: after every completed timer operation (create, cancel, fire by the
\* callback, fire by the sweep, load from a present timers key) the persisted
\* timer list holds the same timers as the active list: same ids, labels and
\* endsAt values, in the same order.
C29_StoredMirrorsActive ==
    /\ Listed(StoredTimers) = Listed(activeTimers)
    /\ activeTimers # <<>> => storage.timers.present

\* A reload that kept one timer and dropped an expired one.
C29_Witness ==
    /\ lastOp.op = "loadFromStorage"
    /\ sessions >= 2
    /\ Len(activeTimers) = 1
    /\ nextId = 2
    /\ sent = [id \in Ids |-> 0]
    /\ cancelled = {}

====
